---------------------------- MODULE Spec2Model ----------------------------
(***************************************************************************)
(* Model of the retrieval-and-matching engine of st_chat_app:              *)
(*   - KnowledgeBaseService (app/services/knowledge_base.py): the cache,   *)
(*     the live fetch and the fallback to the static dataset;              *)
(*   - SimilarityCalculator (app/utils/similarity.py): best match, top-k;  *)
(*   - EmbeddingService (app/models/sentence_model.py): question           *)
(*     extraction and embedding of documents.                              *)
(* Time is counted in seconds; similarities are counted in hundredths.     *)
(***************************************************************************)
EXTENDS Integers, Sequences, FiniteSets, TLC

VARIABLES
    cache,            \* KnowledgeBaseService.cache (a dict)
    last_cache_time,  \* KnowledgeBaseService.last_cache_time
    now,              \* the value time.time() returns
    call,             \* the last completed call of the service and its result
    documents,            \* the documents handed to the matcher or to the embedder
    document_embeddings,  \* the candidate embeddings handed to the matcher
    result,               \* the last completed call of the matcher or embedder and its result
    pc,               \* the statement each request thread is at
    local,            \* the local variables of each request thread
    gen               \* the calls made so far and the whole records they wrote

svcVars == <<cache, last_cache_time, now, call>>

matchVars == <<documents, document_embeddings, result>>

thrVars == <<pc, local, gen>>

-----------------------------------------------------------------------------
(* Bounds of the model *)

\* the value of time.time() when the service is constructed
StartTime == 1000

\* the clock is followed for this many seconds after construction
MaxElapsed == 630

\* amounts by which the clock advances between two calls
TickSteps == {15, 135, 150}

\* the longest list of documents and of candidate embeddings
MaxDocs == 3

\* the largest top_k asked for
MaxK == 3

\* the number of calls the request threads make in all
MaxCalls == 3

\* the number of questions of a batch request
MaxBatch == 2

\* the longest collection of raw records handed to the preparation of the candidates
MaxRaw == 2

-----------------------------------------------------------------------------
(* Python values *)

\* the empty dict {}
EmptyDict == [k \in {} |-> 0]

\* dict.get(key, default)
DictGet(d, key, default) == IF key \in DOMAIN d THEN d[key] ELSE default

\* bool(d) of a dict
DictTruthy(d) == DOMAIN d # {}

\* None; an optional number is None or Some(v)
None == [none |-> TRUE]

Some(v) == [value |-> v]

IsNone(x) == "none" \in DOMAIN x

\* the sequences over S of length at most n
SeqsUpTo(S, n) == UNION {[1..m -> S] : m \in 0..n}

-----------------------------------------------------------------------------
(* KnowledgeBaseService: constants of __init__ *)

timeout == 15

cache_expiry == 300

\* the static dataset; an entry is kept as its _id and its question
mock_data ==
    << [_id |-> "6880bed079737a9e77620472", question |-> "can u develop kotlin api backend"],
       [_id |-> "68815c7179737a9e77620473", question |-> "tell me about your self"],
       [_id |-> "68815ca179737a9e77620474", question |-> "education and career experience"],
       [_id |-> "68815ea479737a9e77620481", question |-> "can u design a photo"] >>

-----------------------------------------------------------------------------
(* The live source: what requests.get and response.json() can do *)

LiveEntryA == [_id |-> "live-a", question |-> "what is machine learning"]
LiveEntryB == [_id |-> "live-b", question |-> "what is artificial intelligence"]

\* the lists a healthy source may answer with
LiveLists == { <<>>, <<LiveEntryA>>, <<LiveEntryB, LiveEntryA>> }

\* status codes: 200, the three the code names, and one of all the others
StatusCodes == {200, 401, 403, 404, 500}

\* exceptions requests.get may raise; "KeyError" stands for any other exception
RequestExceptions == {"Timeout", "ConnectionError", "RequestException", "KeyError"}

\* the body of a response: a JSON list, another JSON value, or no JSON at all
Bodies ==
    [json : {"list"}, data : LiveLists] \cup
    [json : {"object", "invalid"}, data : {<<>>}]

LiveOutcomes ==
    [kind : {"raise"}, exc : RequestExceptions, status_code : {0}, body : {[json |-> "invalid", data |-> <<>>]}]
    \cup
    [kind : {"response"}, exc : {"none"}, status_code : {200}, body : Bodies]
    \cup
    [kind : {"response"}, exc : {"none"}, status_code : StatusCodes \ {200},
     body : {[json |-> "invalid", data |-> <<>>]}]

\* how long the request takes: at once, or as long as the timeout allows
NetDelays == {0, timeout}

\* the classes of an exception (its own class and its base classes);
\* "JSONDecodeError" is what response.json() raises: a ValueError in every
\* version of requests, and a RequestException as well in later ones, so one
\* of the two clauses of the code catches it
ExceptionClasses(exc) ==
    CASE exc = "Timeout"          -> {"Timeout", "RequestException", "Exception"}
      [] exc = "ConnectionError"  -> {"ConnectionError", "RequestException", "Exception"}
      [] exc = "RequestException" -> {"RequestException", "Exception"}
      [] exc = "JSONDecodeError"  -> {"ValueError", "Exception"}
      [] OTHER                    -> {"Exception"}

\* the class of the outcome, as the code tells the outcomes apart
OutcomeClass(o) ==
    IF o.kind = "raise" THEN
        CASE o.exc = "Timeout"          -> "timeout"
          [] o.exc = "ConnectionError"  -> "connection_error"
          [] o.exc = "RequestException" -> "request_error"
          [] OTHER                      -> "exception"
    ELSE IF o.status_code = 200 THEN
        CASE o.body.json = "list"    -> "live_list"
          [] o.body.json = "object"  -> "non_list"
          [] OTHER                   -> "json_error"
    ELSE
        CASE o.status_code = 401 -> "status_401"
          [] o.status_code = 403 -> "status_403"
          [] o.status_code = 404 -> "status_404"
          [] OTHER               -> "status_other"

-----------------------------------------------------------------------------
(* The record of a completed call of the matcher or of the embedder *)

NoResult ==
    [op |-> "none", raised |-> "none", message |-> "", sim_computed |-> FALSE,
     document |-> None, score |-> 0, index |-> -1, matches |-> <<>>,
     query |-> <<>>, threshold |-> None, top_k |-> 0,
     embeddings |-> <<>>, valid_documents |-> <<>>, model_loaded |-> TRUE]

-----------------------------------------------------------------------------
(* KnowledgeBaseService *)

\* a validity test that still accepts a record whose age equals cache_expiry
IsCacheValid_Inclusive ==
    DictTruthy(cache) /\ now - last_cache_time <= cache_expiry

\* a validity test that never lets a record expire
IsCacheValid_NoExpiry ==
    DictTruthy(cache)

\* _is_cache_valid: self.cache and time.time() - self.last_cache_time < self.cache_expiry
_is_cache_valid ==
    DictTruthy(cache) /\ now - last_cache_time < cache_expiry

\* the effect of storing a dataset: the new cache, its time stamp, the value returned
Stored(data, status, t) ==
    [cache |-> [data |-> data, status |-> status, count |-> Len(data)],
     last_cache_time |-> t,
     ret |-> data]

\* the use_mock branch of fetch_knowledge_base, at time t
UseMock(t) == Stored(mock_data, "mock", t)

\* a successful response that is returned without being cached
StoreLive_NotCached(data, t) ==
    [cache |-> cache, last_cache_time |-> last_cache_time, ret |-> data]

\* a successful response that is cached unless its list is empty, the static
\* dataset being stored in its place
StoreLive_FallbackOnEmpty(data, t) ==
    IF data = <<>> THEN Stored(mock_data, "fallback", t) ELSE Stored(data, "success", t)

\* the branch of fetch_knowledge_base that caches a successful response, at time t
StoreLive(data, t) == Stored(data, "success", t)

\* a fallback that stores the dataset and leaves the time stamp as it was
Fallback_StaleTime(t) ==
    [Stored(mock_data, "fallback", t) EXCEPT !.last_cache_time = last_cache_time]

\* a fallback that returns the static dataset without storing it
Fallback_NotStored(t) ==
    [cache |-> cache, last_cache_time |-> last_cache_time, ret |-> mock_data]

\* _fallback_to_mock, at time t
_fallback_to_mock(t) == Stored(mock_data, "fallback", t)

\* the body of the try statement of fetch_knowledge_base: what it does with outcome o
\* of the request, before any except clause
TryBody(o) ==
    IF o.kind = "raise" THEN
        [kind |-> "raise", exc |-> o.exc, data |-> <<>>]
    ELSE IF o.status_code = 200 THEN
        IF o.body.json = "invalid" THEN
            [kind |-> "raise", exc |-> "JSONDecodeError", data |-> <<>>]
        ELSE IF o.body.json = "list" THEN
            [kind |-> "store_live", exc |-> "none", data |-> o.body.data]
        ELSE
            [kind |-> "fallback", exc |-> "none", data |-> <<>>]
    ELSE IF o.status_code = 401 THEN
        [kind |-> "fallback", exc |-> "none", data |-> <<>>]
    ELSE IF o.status_code = 403 THEN
        [kind |-> "fallback", exc |-> "none", data |-> <<>>]
    ELSE IF o.status_code = 404 THEN
        [kind |-> "fallback", exc |-> "none", data |-> <<>>]
    ELSE
        [kind |-> "fallback", exc |-> "none", data |-> <<>>]

\* the except clauses without the last one, except Exception
ExceptClauses_NoCatchAll == <<"Timeout", "ConnectionError", "RequestException", "ValueError">>

\* the except clauses of fetch_knowledge_base, in order; each one falls back
ExceptClauses == <<"Timeout", "ConnectionError", "RequestException", "ValueError", "Exception">>

\* whether one of the except clauses catches exception exc
Caught(exc) ==
    \E i \in 1..Len(ExceptClauses) : ExceptClauses[i] \in ExceptionClasses(exc)

\* the try statement as a whole
LiveAttempt(o) ==
    LET r == TryBody(o) IN
    IF r.kind = "raise" /\ Caught(r.exc)
    THEN [kind |-> "fallback", exc |-> "none", data |-> <<>>]
    ELSE r

\* the record of a completed call; info is the dict get_cache_info returned;
\* after_clear tells, for a clear_cache and for the calls that follow it before
\* the clock advances or a fetch completes, what clear_cache found in the cache
NoCall ==
    [op |-> "none", use_mock |-> FALSE, cls |-> "not_contacted", hit |-> FALSE,
     live_calls |-> 0, fallbacks |-> 0, live_data |-> <<>>, ret |-> <<>>, raised |-> "none",
     question |-> "", found |-> None,
     info |-> [cached |-> FALSE, cache_age_seconds |-> 0, cache_expires_in |-> 0,
               cached_entries |-> 0, cache_status |-> "none"],
     after_clear |-> "none"]

\* a fetch that contacts the live source a second time when the first attempt fails
FetchCall_Retry(use_mock, o, d) ==
    IF _is_cache_valid THEN
        [ok |-> d = 0, cache |-> cache, last_cache_time |-> last_cache_time, now |-> now,
         call |-> [NoCall EXCEPT !.op = "fetch", !.use_mock = use_mock, !.hit = TRUE,
                                 !.ret = DictGet(cache, "data", <<>>)]]
    ELSE IF use_mock THEN
        LET s == UseMock(now) IN
        [ok |-> d = 0, cache |-> s.cache, last_cache_time |-> s.last_cache_time, now |-> now,
         call |-> [NoCall EXCEPT !.op = "fetch", !.use_mock = TRUE, !.ret = s.ret]]
    ELSE
        LET r == LiveAttempt(o)
            met == [NoCall EXCEPT !.op = "fetch", !.cls = OutcomeClass(o),
                                  !.live_calls = IF r.kind = "store_live" THEN 1 ELSE 2,
                                  !.live_data = IF o.kind = "response" THEN o.body.data ELSE <<>>]
            t == now + d
        IN
        CASE r.kind = "store_live" ->
                 LET s == StoreLive(r.data, t) IN
                 [ok |-> t <= StartTime + MaxElapsed, cache |-> s.cache,
                  last_cache_time |-> s.last_cache_time, now |-> t,
                  call |-> [met EXCEPT !.ret = s.ret]]
          [] r.kind = "fallback" ->
                 LET s == _fallback_to_mock(t) IN
                 [ok |-> t <= StartTime + MaxElapsed, cache |-> s.cache,
                  last_cache_time |-> s.last_cache_time, now |-> t,
                  call |-> [met EXCEPT !.ret = s.ret, !.fallbacks = 1]]
          [] OTHER ->
                 [ok |-> t <= StartTime + MaxElapsed, cache |-> cache,
                  last_cache_time |-> last_cache_time, now |-> t,
                  call |-> [met EXCEPT !.raised = r.exc]]

\* a fetch that renews the time stamp of the record whenever it answers from the cache
FetchCall_Sliding(use_mock, o, d) ==
    IF _is_cache_valid THEN
        [ok |-> d = 0, cache |-> cache, last_cache_time |-> now, now |-> now,
         call |-> [NoCall EXCEPT !.op = "fetch", !.use_mock = use_mock, !.hit = TRUE,
                                 !.ret = DictGet(cache, "data", <<>>)]]
    ELSE IF use_mock THEN
        LET s == UseMock(now) IN
        [ok |-> d = 0, cache |-> s.cache, last_cache_time |-> s.last_cache_time, now |-> now,
         call |-> [NoCall EXCEPT !.op = "fetch", !.use_mock = TRUE, !.ret = s.ret]]
    ELSE
        LET r == LiveAttempt(o)
            met == [NoCall EXCEPT !.op = "fetch", !.cls = OutcomeClass(o), !.live_calls = 1,
                                  !.live_data = IF o.kind = "response" THEN o.body.data ELSE <<>>]
            t == now + d
        IN
        CASE r.kind = "store_live" ->
                 LET s == StoreLive(r.data, t) IN
                 [ok |-> t <= StartTime + MaxElapsed, cache |-> s.cache,
                  last_cache_time |-> s.last_cache_time, now |-> t,
                  call |-> [met EXCEPT !.ret = s.ret]]
          [] r.kind = "fallback" ->
                 LET s == _fallback_to_mock(t) IN
                 [ok |-> t <= StartTime + MaxElapsed, cache |-> s.cache,
                  last_cache_time |-> s.last_cache_time, now |-> t,
                  call |-> [met EXCEPT !.ret = s.ret, !.fallbacks = 1]]
          [] OTHER ->
                 [ok |-> t <= StartTime + MaxElapsed, cache |-> cache,
                  last_cache_time |-> last_cache_time, now |-> t,
                  call |-> [met EXCEPT !.raised = r.exc]]

\* a call of fetch_knowledge_base(use_mock), the live source behaving as o and
\* answering after d seconds: whether the call can be made within the bounds
\* (ok), what it leaves in the service and the record of the call
FetchCall(use_mock, o, d) ==
    IF _is_cache_valid THEN
        [ok |-> d = 0, cache |-> cache, last_cache_time |-> last_cache_time, now |-> now,
         call |-> [NoCall EXCEPT !.op = "fetch", !.use_mock = use_mock, !.hit = TRUE,
                                 !.ret = DictGet(cache, "data", <<>>)]]
    ELSE IF use_mock THEN
        LET s == UseMock(now) IN
        [ok |-> d = 0, cache |-> s.cache, last_cache_time |-> s.last_cache_time, now |-> now,
         call |-> [NoCall EXCEPT !.op = "fetch", !.use_mock = TRUE, !.ret = s.ret]]
    ELSE
        LET r == LiveAttempt(o)
            met == [NoCall EXCEPT !.op = "fetch", !.cls = OutcomeClass(o), !.live_calls = 1,
                                  !.live_data = IF o.kind = "response" THEN o.body.data ELSE <<>>]
            t == now + d
        IN
        CASE r.kind = "store_live" ->
                 LET s == StoreLive(r.data, t) IN
                 [ok |-> t <= StartTime + MaxElapsed, cache |-> s.cache,
                  last_cache_time |-> s.last_cache_time, now |-> t,
                  call |-> [met EXCEPT !.ret = s.ret]]
          [] r.kind = "fallback" ->
                 LET s == _fallback_to_mock(t) IN
                 [ok |-> t <= StartTime + MaxElapsed, cache |-> s.cache,
                  last_cache_time |-> s.last_cache_time, now |-> t,
                  call |-> [met EXCEPT !.ret = s.ret, !.fallbacks = 1]]
          [] OTHER ->
                 [ok |-> t <= StartTime + MaxElapsed, cache |-> cache,
                  last_cache_time |-> last_cache_time, now |-> t,
                  call |-> [met EXCEPT !.raised = r.exc]]

\* fetch_knowledge_base(use_mock), the live source behaving as o and answering after d seconds
fetch_knowledge_base(use_mock, o, d) ==
    LET f == FetchCall(use_mock, o, d) IN
    /\ f.ok
    /\ cache' = f.cache
    /\ last_cache_time' = f.last_cache_time
    /\ now' = f.now
    /\ call' = [f.call EXCEPT !.after_clear = IF call.op \in {"clear", "info"}
                                              THEN call.after_clear ELSE "none"]
    /\ UNCHANGED matchVars
    /\ UNCHANGED thrVars

\* a clear_cache that empties the cache and leaves the time stamp as it was
clear_cache_KeepsTime ==
    /\ cache' = EmptyDict
    /\ call' = [NoCall EXCEPT !.op = "clear",
                              !.after_clear = IF ~DictTruthy(cache) THEN "empty"
                                              ELSE IF _is_cache_valid THEN "valid" ELSE "expired"]
    /\ UNCHANGED <<last_cache_time, now>>
    /\ UNCHANGED matchVars
    /\ UNCHANGED thrVars

\* a clear_cache that resets the time stamp and leaves the record in the cache
clear_cache_KeepsRecord ==
    /\ last_cache_time' = 0
    /\ call' = [NoCall EXCEPT !.op = "clear",
                              !.after_clear = IF ~DictTruthy(cache) THEN "empty"
                                              ELSE IF _is_cache_valid THEN "valid" ELSE "expired"]
    /\ UNCHANGED <<cache, now>>
    /\ UNCHANGED matchVars
    /\ UNCHANGED thrVars

\* clear_cache
clear_cache ==
    /\ cache' = EmptyDict
    /\ last_cache_time' = 0
    /\ call' = [NoCall EXCEPT !.op = "clear",
                              !.after_clear = IF ~DictTruthy(cache) THEN "empty"
                                              ELSE IF _is_cache_valid THEN "valid" ELSE "expired"]
    /\ UNCHANGED now
    /\ UNCHANGED matchVars
    /\ UNCHANGED thrVars

\* the dict get_cache_info builds from self.cache, self.last_cache_time and time.time()
CacheInfo ==
    [cached |-> DictTruthy(cache),
     cache_age_seconds |-> IF last_cache_time # 0 THEN now - last_cache_time ELSE 0,
     cache_expires_in |->
         IF last_cache_time # 0
         THEN (IF cache_expiry - (now - last_cache_time) > 0
               THEN cache_expiry - (now - last_cache_time) ELSE 0)
         ELSE 0,
     cached_entries |-> IF DictTruthy(cache) THEN Len(DictGet(cache, "data", <<>>)) ELSE 0,
     cache_status |-> IF DictTruthy(cache) THEN DictGet(cache, "status", "none") ELSE "none"]

\* get_cache_info
get_cache_info ==
    /\ call' = [NoCall EXCEPT !.op = "info", !.info = CacheInfo,
                              !.after_clear = IF call.op \in {"clear", "info"}
                                              THEN call.after_clear ELSE "none"]
    /\ UNCHANGED <<cache, last_cache_time, now>>
    /\ UNCHANGED matchVars
    /\ UNCHANGED thrVars

\* the clock advances by d seconds between two calls
Tick(d) ==
    /\ now + d <= StartTime + MaxElapsed
    /\ now' = now + d
    /\ call' = NoCall
    /\ UNCHANGED <<cache, last_cache_time>>
    /\ UNCHANGED matchVars
    /\ UNCHANGED thrVars

-----------------------------------------------------------------------------
(* Request threads: run.py serves with threaded=True, and every request thread
   calls the one KnowledgeBaseService instance, which takes no lock *)

\* the request threads of the process
Threads == {1, 2}

\* the local variables of a thread that is in no call; info is the dict
\* get_cache_info builds, before any of its values is computed; saw_cache and
\* saw_time are the values the thread has read from self.cache and
\* self.last_cache_time
NoLocal ==
    [op |-> "none", id |-> 0, use_mock |-> FALSE, data |-> <<>>, status |-> "none",
     ret |-> <<>>, raised |-> "none",
     info |-> [cached |-> FALSE, cache_age_seconds |-> 0, cache_expires_in |-> 0,
               cached_entries |-> 0, cache_status |-> "none"],
     saw_cache |-> {}, saw_time |-> {}]

\* no call made yet, and the one whole record written so far, that of __init__
NoWrites == [calls |-> 0, records |-> {[cache |-> EmptyDict, last_cache_time |-> 0]}]

\* __init__
Init ==
    /\ cache = EmptyDict
    /\ last_cache_time = 0
    /\ now = StartTime
    /\ call = NoCall
    /\ documents = <<>>
    /\ document_embeddings = <<>>
    /\ result = NoResult
    /\ pc = [t \in Threads |-> "idle"]
    /\ local = [t \in Threads |-> NoLocal]
    /\ gen = NoWrites

Fetch == \E use_mock \in BOOLEAN, o \in LiveOutcomes, d \in NetDelays : fetch_knowledge_base(use_mock, o, d)

Clear == clear_cache

Advance == \E d \in TickSteps : Tick(d)

\* the clock advances by the life of a cache record
Expire == Tick(cache_expiry)

Next == Fetch \/ Clear \/ Advance

vars == <<cache, last_cache_time, now, call, documents, document_embeddings, result, pc, local, gen>>

Spec == Init /\ [][Next]_vars

\* the service with its operational calls: fetches, clears and cache reports
InfoNext == Fetch \/ Clear \/ Advance \/ get_cache_info

InfoSpec == Init /\ [][InfoNext]_vars

\* the time from which the live source answers every request with a list; it
\* leaves the life of a record, and the longest request, before the clock
\* stops being followed
HealthyFrom == StartTime + MaxElapsed - cache_expiry - 2 * timeout

\* fetch_knowledge_base(), as search_knowledge_base calls it, the live source
\* failing only before HealthyFrom
RecoverFetch ==
    \E o \in LiveOutcomes, d \in NetDelays :
        /\ (now >= HealthyFrom) => (OutcomeClass(o) = "live_list")
        /\ fetch_knowledge_base(FALSE, o, d)

RecoverNext == RecoverFetch \/ Clear \/ Advance

\* the service of a source that recovers: the clock keeps advancing and
\* fetch_knowledge_base keeps being called
RecoverSpec ==
    Init /\ [][RecoverNext]_vars /\ WF_vars(Advance) /\ WF_vars(RecoverFetch)

-----------------------------------------------------------------------------
(* KnowledgeBaseService called by concurrent request threads: one step per
   statement that reads or writes self.cache or self.last_cache_time *)

\* the outcomes of the live request the threads meet: lists and a timeout
ThreadOutcomes == { o \in LiveOutcomes : OutcomeClass(o) \in {"live_list", "timeout"} }

\* the calls a request thread makes
ThreadOps == {"fetch", "clear", "info"}

\* thread t enters a call of fetch_knowledge_base(use_mock), clear_cache or get_cache_info
StartCall(t, op, use_mock) ==
    /\ pc[t] = "idle"
    /\ gen.calls < MaxCalls
    /\ (op # "fetch") => ~use_mock
    /\ gen' = [gen EXCEPT !.calls = gen.calls + 1]
    /\ local' = [local EXCEPT ![t] = [NoLocal EXCEPT !.op = op, !.id = gen.calls + 1,
                                                     !.use_mock = use_mock]]
    /\ pc' = [pc EXCEPT ![t] = CASE op = "fetch" -> "valid"
                                 [] op = "clear" -> "clear_cache"
                                 [] OTHER        -> "info_cached"]
    /\ UNCHANGED <<cache, last_cache_time, now, call>>
    /\ UNCHANGED matchVars

\* fetch_knowledge_base: if self._is_cache_valid(), else if use_mock, else the request
CheckValid(t) ==
    /\ pc[t] = "valid"
    /\ IF _is_cache_valid THEN
           /\ pc' = [pc EXCEPT ![t] = "hit"]
           /\ local' = [local EXCEPT ![t].saw_cache = @ \cup {cache},
                                     ![t].saw_time = @ \cup {last_cache_time}]
       ELSE IF local[t].use_mock THEN
           /\ pc' = [pc EXCEPT ![t] = "store_cache"]
           /\ local' = [local EXCEPT ![t].data = mock_data, ![t].status = "mock"]
       ELSE
           /\ pc' = [pc EXCEPT ![t] = "request"]
           /\ UNCHANGED local
    /\ UNCHANGED <<cache, last_cache_time, now, call, gen>>
    /\ UNCHANGED matchVars

\* fetch_knowledge_base: return self.cache.get('data', [])
ReadHit(t) ==
    /\ pc[t] = "hit"
    /\ local' = [local EXCEPT ![t].ret = DictGet(cache, "data", <<>>),
                              ![t].saw_cache = @ \cup {cache}]
    /\ pc' = [pc EXCEPT ![t] = "idle"]
    /\ UNCHANGED <<cache, last_cache_time, now, call, gen>>
    /\ UNCHANGED matchVars

\* fetch_knowledge_base: the try statement up to the store, the request behaving as o
Request(t, o) ==
    /\ pc[t] = "request"
    /\ LET r == LiveAttempt(o) IN
       CASE r.kind = "store_live" ->
                 /\ local' = [local EXCEPT ![t].data = r.data, ![t].status = "success"]
                 /\ pc' = [pc EXCEPT ![t] = "store_cache"]
            [] r.kind = "fallback" ->
                 /\ local' = [local EXCEPT ![t].data = mock_data, ![t].status = "fallback"]
                 /\ pc' = [pc EXCEPT ![t] = "store_cache"]
            [] OTHER ->
                 /\ local' = [local EXCEPT ![t].raised = r.exc]
                 /\ pc' = [pc EXCEPT ![t] = "idle"]
    /\ UNCHANGED <<cache, last_cache_time, now, call, gen>>
    /\ UNCHANGED matchVars

\* self.cache = {...} in the use_mock branch, the live branch or _fallback_to_mock
StoreCache(t) ==
    /\ pc[t] = "store_cache"
    /\ cache' = CASE local[t].status = "mock"    -> UseMock(now).cache
                  [] local[t].status = "success" -> StoreLive(local[t].data, now).cache
                  [] OTHER                       -> _fallback_to_mock(now).cache
    /\ pc' = [pc EXCEPT ![t] = "store_time"]
    /\ UNCHANGED <<last_cache_time, now, call, local, gen>>
    /\ UNCHANGED matchVars

\* self.last_cache_time = time.time(), and the return of the dataset
StoreTime(t) ==
    /\ pc[t] = "store_time"
    /\ last_cache_time' = now
    /\ gen' = [gen EXCEPT !.records = @ \cup {[cache |-> Stored(local[t].data, local[t].status, now).cache,
                                               last_cache_time |-> now]}]
    /\ local' = [local EXCEPT ![t].ret = local[t].data]
    /\ pc' = [pc EXCEPT ![t] = "idle"]
    /\ UNCHANGED <<cache, now, call>>
    /\ UNCHANGED matchVars

\* clear_cache: self.cache = {}
ClearCacheStep(t) ==
    /\ pc[t] = "clear_cache"
    /\ cache' = EmptyDict
    /\ pc' = [pc EXCEPT ![t] = "clear_time"]
    /\ UNCHANGED <<last_cache_time, now, call, local, gen>>
    /\ UNCHANGED matchVars

\* clear_cache: self.last_cache_time = 0
ClearTimeStep(t) ==
    /\ pc[t] = "clear_time"
    /\ last_cache_time' = 0
    /\ pc' = [pc EXCEPT ![t] = "idle"]
    /\ UNCHANGED <<cache, now, call, local, gen>>
    /\ UNCHANGED matchVars

\* get_cache_info: 'cached': bool(self.cache)
InfoCached(t) ==
    /\ pc[t] = "info_cached"
    /\ local' = [local EXCEPT ![t].info.cached = DictTruthy(cache),
                              ![t].saw_cache = @ \cup {cache}]
    /\ pc' = [pc EXCEPT ![t] = "info_age"]
    /\ UNCHANGED <<cache, last_cache_time, now, call, gen>>
    /\ UNCHANGED matchVars

\* get_cache_info: 'cache_age_seconds'
InfoAge(t) ==
    /\ pc[t] = "info_age"
    /\ local' = [local EXCEPT ![t].info.cache_age_seconds =
                                  IF last_cache_time # 0 THEN now - last_cache_time ELSE 0,
                              ![t].saw_time = @ \cup {last_cache_time}]
    /\ pc' = [pc EXCEPT ![t] = "info_expires"]
    /\ UNCHANGED <<cache, last_cache_time, now, call, gen>>
    /\ UNCHANGED matchVars

\* get_cache_info: 'cache_expires_in'
InfoExpires(t) ==
    /\ pc[t] = "info_expires"
    /\ local' = [local EXCEPT ![t].info.cache_expires_in =
                                  IF last_cache_time # 0
                                  THEN (IF cache_expiry - (now - last_cache_time) > 0
                                        THEN cache_expiry - (now - last_cache_time) ELSE 0)
                                  ELSE 0,
                              ![t].saw_time = @ \cup {last_cache_time}]
    /\ pc' = [pc EXCEPT ![t] = "info_entries"]
    /\ UNCHANGED <<cache, last_cache_time, now, call, gen>>
    /\ UNCHANGED matchVars

\* get_cache_info: 'cached_entries'
InfoEntries(t) ==
    /\ pc[t] = "info_entries"
    /\ local' = [local EXCEPT ![t].info.cached_entries =
                                  IF DictTruthy(cache) THEN Len(DictGet(cache, "data", <<>>)) ELSE 0,
                              ![t].saw_cache = @ \cup {cache}]
    /\ pc' = [pc EXCEPT ![t] = "info_status"]
    /\ UNCHANGED <<cache, last_cache_time, now, call, gen>>
    /\ UNCHANGED matchVars

\* get_cache_info: 'cache_status', and the return of the dict
InfoStatus(t) ==
    /\ pc[t] = "info_status"
    /\ local' = [local EXCEPT ![t].info.cache_status =
                                  IF DictTruthy(cache) THEN DictGet(cache, "status", "none") ELSE "none",
                              ![t].saw_cache = @ \cup {cache}]
    /\ pc' = [pc EXCEPT ![t] = "idle"]
    /\ UNCHANGED <<cache, last_cache_time, now, call, gen>>
    /\ UNCHANGED matchVars

ThreadCall == \E t \in Threads, op \in ThreadOps, use_mock \in BOOLEAN : StartCall(t, op, use_mock)

ThreadFetch ==
    \E t \in Threads :
        \/ CheckValid(t)
        \/ ReadHit(t)
        \/ \E o \in ThreadOutcomes : Request(t, o)
        \/ StoreCache(t)
        \/ StoreTime(t)

ThreadClear == \E t \in Threads : ClearCacheStep(t) \/ ClearTimeStep(t)

ThreadInfo ==
    \E t \in Threads :
        InfoCached(t) \/ InfoAge(t) \/ InfoExpires(t) \/ InfoEntries(t) \/ InfoStatus(t)

ThreadNext == ThreadCall \/ ThreadFetch \/ ThreadClear \/ ThreadInfo \/ Expire

ThreadSpec == Init /\ [][ThreadNext]_vars

-----------------------------------------------------------------------------
(* Embedding vectors and cosine similarity *)

\* candidate and query vectors of dimension 2, each of a whole-numbered length,
\* so that every cosine is a whole number of hundredths
Vectors == { <<1, 0>>, <<0, 1>>, <<3, 4>>, <<4, 3>>, <<-3, -4>> }

\* query vectors: two of dimension 2 and one whose dimension differs
QueryVectors == { <<1, 0>>, <<3, 4>>, <<1, 0, 0>> }

\* thresholds a caller passes: None, values within [0, 1], one above 1 (in hundredths)
Thresholds == { None, Some(0), Some(80), Some(100), Some(150) }

\* Config.SIMILARITY_THRESHOLD, in hundredths
SIMILARITY_THRESHOLD == 60

\* the i-th document of a candidate set
CandidateDoc(i) == [_id |-> i, question |-> <<"q">>]

RECURSIVE Dot(_, _)
Dot(u, v) ==
    IF u = <<>> THEN 0 ELSE Head(u) * Head(v) + Dot(Tail(u), Tail(v))

\* the Euclidean length of u; a vector of length 0 is left as it is by the
\* normalisation, which divides by 1 in its place
NormOrOne(u) ==
    LET n2 == Dot(u, u) IN
    IF n2 = 0 THEN 1 ELSE CHOOSE r \in 1..n2 : r * r = n2

\* the cosine of two vectors of the same dimension, in hundredths
Cosine100(u, v) == (100 * Dot(u, v)) \div (NormOrOne(u) * NormOrOne(v))

\* calculate_cosine_similarity: the similarities of the query and each row, or
\* ValueError when a row's dimension differs from the query's
calculate_cosine_similarity(query_embedding, embeddings) ==
    IF \E i \in 1..Len(embeddings) : Len(embeddings[i]) # Len(query_embedding)
    THEN [raised |-> "ValueError", similarities |-> <<>>]
    ELSE [raised |-> "none",
          similarities |-> [i \in 1..Len(embeddings) |-> Cosine100(query_embedding, embeddings[i])]]

-----------------------------------------------------------------------------
(* SimilarityCalculator *)

\* the threshold a call works with: the one given, or the configured one
ThresholdOrConfig(threshold) ==
    IF IsNone(threshold) THEN SIMILARITY_THRESHOLD ELSE threshold.value

\* a length test that comes after the test for an empty list of documents
AlignmentViolated_UnlessEmpty(docs, embeddings) ==
    Len(docs) # 0 /\ Len(docs) # Len(embeddings)

\* len(documents) != len(document_embeddings)
AlignmentViolated(docs, embeddings) == Len(docs) # Len(embeddings)

\* an argmax that keeps the last of several largest values
ArgMaxFrom_Last(sims, i, best) ==
    LET RECURSIVE Scan(_, _)
        Scan(j, b) ==
            IF j > Len(sims) THEN b
            ELSE IF sims[j] >= sims[b] THEN Scan(j + 1, j) ELSE Scan(j + 1, b)
    IN Scan(i, best)

\* np.argmax, scanning from position i with the best position so far: a later
\* value replaces the best one only if it is larger (positions count from 1)
RECURSIVE ArgMaxFrom(_, _, _)
ArgMaxFrom(sims, i, best) ==
    IF i > Len(sims) THEN best
    ELSE IF sims[i] > sims[best] THEN ArgMaxFrom(sims, i + 1, i)
    ELSE ArgMaxFrom(sims, i + 1, best)

\* a threshold test that rejects a score equal to the threshold
MeetsThreshold_Strict(similarity, threshold) == similarity > threshold

\* best_similarity >= threshold
MeetsThreshold(similarity, threshold) == similarity >= threshold

\* an empty candidate set answered with index 0
EmptyMatch_IndexZero == [document |-> None, score |-> 0, index |-> 0]

\* return None, 0.0, -1
EmptyMatch == [document |-> None, score |-> 0, index |-> -1]

\* find_best_match; indices are reported as the code reports them, from 0
FindBestMatch(query_embedding, embeddings, docs, threshold) ==
    LET base == [NoResult EXCEPT !.op = "best", !.query = query_embedding,
                                 !.threshold = threshold]
    IN
    IF AlignmentViolated(docs, embeddings) THEN
        [base EXCEPT !.raised = "ValueError",
                     !.message = "Number of documents must match number of embeddings"]
    ELSE IF Len(docs) = 0 THEN
        [base EXCEPT !.document = EmptyMatch.document, !.score = EmptyMatch.score,
                     !.index = EmptyMatch.index]
    ELSE
        LET t == ThresholdOrConfig(threshold)
            c == calculate_cosine_similarity(query_embedding, embeddings)
        IN
        IF c.raised # "none" THEN
            [base EXCEPT !.raised = "ValueError", !.sim_computed = TRUE,
                         !.message = "Best match calculation failed"]
        ELSE
            LET best == ArgMaxFrom(c.similarities, 1, 1)
                best_similarity == c.similarities[best]
            IN
            IF MeetsThreshold(best_similarity, t) THEN
                [base EXCEPT !.sim_computed = TRUE, !.document = docs[best],
                             !.score = best_similarity, !.index = best - 1]
            ELSE
                [base EXCEPT !.sim_computed = TRUE, !.document = None,
                             !.score = best_similarity, !.index = best - 1]

\* the results np.argsort may give: the positions in an order of
\* non-decreasing similarity; the order of equal values is not fixed
ArgSorts(sims) ==
    { p \in [1..Len(sims) -> 1..Len(sims)] :
        /\ \A i, j \in 1..Len(sims) : i # j => p[i] # p[j]
        /\ \A i, j \in 1..Len(sims) : i < j => sims[p[i]] <= sims[p[j]] }

\* s[::-1]
Reverse(s) == [i \in 1..Len(s) |-> s[Len(s) + 1 - i]]

\* an order that was not reversed
SortedIndices_Ascending(p) == p

\* np.argsort(similarities)[::-1], p being what np.argsort gave
SortedIndices(p) == Reverse(p)

\* s[:k] for k >= 0
Prefix(s, k) == SubSeq(s, 1, IF k < Len(s) THEN k ELSE Len(s))

\* the loop of get_top_matches over the positions idxs: it appends while the
\* similarity reaches the threshold and breaks at the first one that does not
RECURSIVE TopLoop(_, _, _, _)
TopLoop(idxs, sims, docs, t) ==
    IF idxs = <<>> THEN <<>>
    ELSE IF sims[Head(idxs)] >= t THEN
        << [document |-> docs[Head(idxs)], score |-> sims[Head(idxs)], index |-> Head(idxs) - 1] >>
            \o TopLoop(Tail(idxs), sims, docs, t)
    ELSE <<>>

\* get_top_matches up to the sort: the result when the call ends before it
TopMatchesEarly(query_embedding, embeddings, docs, top_k, threshold) ==
    LET base == [NoResult EXCEPT !.op = "top", !.query = query_embedding,
                                 !.threshold = threshold, !.top_k = top_k]
    IN
    IF AlignmentViolated(docs, embeddings) THEN
        [base EXCEPT !.raised = "ValueError",
                     !.message = "Number of documents must match number of embeddings"]
    ELSE IF Len(docs) = 0 THEN
        base
    ELSE IF calculate_cosine_similarity(query_embedding, embeddings).raised # "none" THEN
        [base EXCEPT !.raised = "ValueError", !.sim_computed = TRUE,
                     !.message = "Top matches calculation failed"]
    ELSE
        [base EXCEPT !.op = "sorting"]

\* get_top_matches, p being the order np.argsort gives when it is reached
GetTopMatches(query_embedding, embeddings, docs, top_k, threshold, p) ==
    LET early == TopMatchesEarly(query_embedding, embeddings, docs, top_k, threshold) IN
    IF early.op # "sorting" THEN early
    ELSE
        LET sims == calculate_cosine_similarity(query_embedding, embeddings).similarities
            t == ThresholdOrConfig(threshold)
        IN
        [early EXCEPT !.op = "top", !.sim_computed = TRUE,
                      !.matches = TopLoop(Prefix(SortedIndices(p), top_k), sims, docs, t)]

\* a call of find_best_match on the candidate set
find_best_match(query_embedding, threshold) ==
    /\ result.op = "none"
    /\ result' = FindBestMatch(query_embedding, document_embeddings, documents, threshold)
    /\ UNCHANGED <<documents, document_embeddings>>
    /\ UNCHANGED svcVars
    /\ UNCHANGED thrVars

\* a call of get_top_matches on the candidate set
get_top_matches(query_embedding, top_k, threshold) ==
    /\ result.op = "none"
    /\ LET early == TopMatchesEarly(query_embedding, document_embeddings, documents, top_k, threshold) IN
       IF early.op # "sorting" THEN result' = early
       ELSE \E p \in ArgSorts(calculate_cosine_similarity(query_embedding, document_embeddings).similarities) :
               result' = GetTopMatches(query_embedding, document_embeddings, documents, top_k, threshold, p)
    /\ UNCHANGED <<documents, document_embeddings>>
    /\ UNCHANGED svcVars
    /\ UNCHANGED thrVars

\* the caller takes the result; the next call can be made
TakeResult ==
    /\ result.op # "none"
    /\ result' = NoResult
    /\ UNCHANGED <<documents, document_embeddings>>
    /\ UNCHANGED svcVars
    /\ UNCHANGED thrVars

\* a candidate set: up to MaxDocs documents and up to MaxDocs embeddings
SimInit ==
    /\ cache = EmptyDict
    /\ last_cache_time = 0
    /\ now = StartTime
    /\ call = NoCall
    /\ \E n \in 0..MaxDocs : documents = [i \in 1..n |-> CandidateDoc(i)]
    /\ document_embeddings \in SeqsUpTo(Vectors, MaxDocs)
    /\ result = NoResult
    /\ pc = [t \in Threads |-> "idle"]
    /\ local = [t \in Threads |-> NoLocal]
    /\ gen = NoWrites

BestMatch == \E q \in QueryVectors, t \in Thresholds : find_best_match(q, t)

TopMatches == \E q \in QueryVectors, k \in 0..MaxK, t \in Thresholds : get_top_matches(q, k, t)

SimNext == BestMatch \/ TopMatches \/ TakeResult

SimSpec == SimInit /\ [][SimNext]_vars

-----------------------------------------------------------------------------
(* EmbeddingService *)

\* a str value, kept as the sequence of its characters
Str(chars) == [type |-> "str", chars |-> chars]

\* a value of a question field that is no str: None, or an int
NoneValue == [type |-> "NoneType"]

IntValue(n) == [type |-> "int", value |-> n]

\* the values the question field of a document takes: texts with and without
\* surrounding whitespace, the empty text, a blank text, None, a number
QuestionValues ==
    { Str(<<"a">>), Str(<<" ", "b", "a", " ">>), Str(<<>>), Str(<<" ">>), NoneValue, IntValue(7) }

\* the documents handed to the embedder: with each question value, and without the field
RawDocuments ==
    { [question |-> q] : q \in QuestionValues } \cup { [answers |-> "none"] }

\* the truth value of a Python value
Truthy(x) ==
    CASE x.type = "str"      -> x.chars # <<>>
      [] x.type = "NoneType" -> FALSE
      [] OTHER               -> x.value # 0

\* str.strip() on a sequence of characters
RECURSIVE LStrip(_)
LStrip(chars) ==
    IF chars # <<>> /\ Head(chars) = " " THEN LStrip(Tail(chars)) ELSE chars

RECURSIVE RStrip(_)
RStrip(chars) ==
    IF chars # <<>> /\ chars[Len(chars)] = " "
    THEN RStrip(SubSeq(chars, 1, Len(chars) - 1))
    ELSE chars

Strip(chars) == RStrip(LStrip(chars))

\* the number of times character c occurs in chars
RECURSIVE Count(_, _)
Count(chars, c) ==
    IF chars = <<>> THEN 0
    ELSE (IF Head(chars) = c THEN 1 ELSE 0) + Count(Tail(chars), c)

\* model.encode of one text: the model is a function of the text; here the
\* vector of the numbers of its letters, "z" counting against "a"
Encode(chars) == << Count(chars, "a") - Count(chars, "z"), Count(chars, "b") >>

\* model.encode of a list of texts: one vector per text, in order
EncodeAll(texts) == [i \in 1..Len(texts) |-> Encode(texts[i])]

\* embed_texts; texts are sequences of characters, model_loaded tells whether
\* get_sentence_model finds the model
embed_texts(texts, model_loaded) ==
    IF texts = <<>> THEN
        [raised |-> "ValueError", embeddings |-> <<>>]
    ELSE
        LET kept == SelectSeq(texts, LAMBDA t : t # <<>> /\ Strip(t) # <<>>)
            clean_texts == [i \in 1..Len(kept) |-> Strip(kept[i])]
        IN
        IF clean_texts = <<>> THEN
            [raised |-> "ValueError", embeddings |-> <<>>]
        ELSE IF ~model_loaded THEN
            [raised |-> "RuntimeError", embeddings |-> <<>>]
        ELSE
            [raised |-> "none", embeddings |-> EncodeAll(clean_texts)]

\* a loop that keeps every document that has a question field
ExtractQuestions_KeepsBlank(docs) ==
    LET RECURSIVE Loop(_, _, _)
        Loop(rest, questions, valid_documents) ==
            IF rest = <<>> THEN
                [raised |-> "none", questions |-> questions, valid_documents |-> valid_documents]
            ELSE
                LET doc == Head(rest) IN
                IF "question" \notin DOMAIN doc THEN
                    Loop(Tail(rest), questions, valid_documents)
                ELSE IF ~Truthy(doc.question) THEN
                    Loop(Tail(rest), questions, Append(valid_documents, doc))
                ELSE IF doc.question.type # "str" THEN
                    [raised |-> "AttributeError", questions |-> <<>>, valid_documents |-> <<>>]
                ELSE IF Strip(doc.question.chars) # <<>> THEN
                    Loop(Tail(rest), Append(questions, Strip(doc.question.chars)),
                         Append(valid_documents, doc))
                ELSE
                    Loop(Tail(rest), questions, Append(valid_documents, doc))
    IN Loop(docs, <<>>, <<>>)

\* the loop of embed_questions_from_documents over the documents docs: the
\* questions and the documents it keeps, or the exception question.strip()
\* raises on a value that is no str
RECURSIVE ExtractLoop(_, _, _)
ExtractLoop(rest, questions, valid_documents) ==
    IF rest = <<>> THEN
        [raised |-> "none", questions |-> questions, valid_documents |-> valid_documents]
    ELSE
        LET doc == Head(rest) IN
        IF "question" \notin DOMAIN doc THEN
            ExtractLoop(Tail(rest), questions, valid_documents)
        ELSE IF ~Truthy(doc.question) THEN
            ExtractLoop(Tail(rest), questions, valid_documents)
        ELSE IF doc.question.type # "str" THEN
            [raised |-> "AttributeError", questions |-> <<>>, valid_documents |-> <<>>]
        ELSE IF Strip(doc.question.chars) # <<>> THEN
            ExtractLoop(Tail(rest), Append(questions, Strip(doc.question.chars)),
                        Append(valid_documents, doc))
        ELSE
            ExtractLoop(Tail(rest), questions, valid_documents)

ExtractQuestions(docs) == ExtractLoop(docs, <<>>, <<>>)

\* embed_questions_from_documents
EmbedQuestionsFromDocuments(docs, model_loaded) ==
    LET base == [NoResult EXCEPT !.op = "embed", !.model_loaded = model_loaded] IN
    IF docs = <<>> THEN
        [base EXCEPT !.raised = "ValueError", !.message = "Documents list cannot be empty"]
    ELSE
        LET x == ExtractQuestions(docs) IN
        IF x.raised # "none" THEN
            [base EXCEPT !.raised = "RuntimeError", !.message = "Document question embedding failed"]
        ELSE IF x.questions = <<>> THEN
            [base EXCEPT !.raised = "RuntimeError", !.message = "Document question embedding failed"]
        ELSE
            LET e == embed_texts(x.questions, model_loaded) IN
            IF e.raised # "none" THEN
                [base EXCEPT !.raised = "RuntimeError", !.message = "Document question embedding failed"]
            ELSE
                [base EXCEPT !.embeddings = e.embeddings, !.valid_documents = x.valid_documents]

\* a call of embed_questions_from_documents on the documents
embed_questions_from_documents(model_loaded) ==
    /\ result.op = "none"
    /\ result' = EmbedQuestionsFromDocuments(documents, model_loaded)
    /\ UNCHANGED <<documents, document_embeddings>>
    /\ UNCHANGED svcVars
    /\ UNCHANGED thrVars

\* a list of up to MaxDocs documents
EmbedInit ==
    /\ cache = EmptyDict
    /\ last_cache_time = 0
    /\ now = StartTime
    /\ call = NoCall
    /\ documents \in SeqsUpTo(RawDocuments, MaxDocs)
    /\ document_embeddings = <<>>
    /\ result = NoResult
    /\ pc = [t \in Threads |-> "idle"]
    /\ local = [t \in Threads |-> NoLocal]
    /\ gen = NoWrites

EmbedQuestions == \E model_loaded \in BOOLEAN : embed_questions_from_documents(model_loaded)

EmbedNext == EmbedQuestions \/ TakeResult

EmbedSpec == EmbedInit /\ [][EmbedNext]_vars

-----------------------------------------------------------------------------
(* KnowledgeBaseService.search_knowledge_base *)

\* the characters of the str values of the service: the questions of the
\* entries, the keywords and the questions asked
CharsOf ==
    "ai" :> <<"a", "i">> @@
    "artificial intelligence" :> <<"a", "r", "t", "i", "f", "i", "c", "i", "a", "l", " ", "i", "n", "t", "e", "l", "l", "i", "g", "e", "n", "c", "e">> @@
    "artificial" :> <<"a", "r", "t", "i", "f", "i", "c", "i", "a", "l">> @@
    "intelligence" :> <<"i", "n", "t", "e", "l", "l", "i", "g", "e", "n", "c", "e">> @@
    "ml" :> <<"m", "l">> @@
    "machine learning" :> <<"m", "a", "c", "h", "i", "n", "e", " ", "l", "e", "a", "r", "n", "i", "n", "g">> @@
    "machine" :> <<"m", "a", "c", "h", "i", "n", "e">> @@
    "learning" :> <<"l", "e", "a", "r", "n", "i", "n", "g">> @@
    "kotlin" :> <<"k", "o", "t", "l", "i", "n">> @@
    "api" :> <<"a", "p", "i">> @@
    "backend" :> <<"b", "a", "c", "k", "e", "n", "d">> @@
    "development" :> <<"d", "e", "v", "e", "l", "o", "p", "m", "e", "n", "t">> @@
    "develop" :> <<"d", "e", "v", "e", "l", "o", "p">> @@
    "about" :> <<"a", "b", "o", "u", "t">> @@
    "yourself" :> <<"y", "o", "u", "r", "s", "e", "l", "f">> @@
    "who are you" :> <<"w", "h", "o", " ", "a", "r", "e", " ", "y", "o", "u">> @@
    "tell me about" :> <<"t", "e", "l", "l", " ", "m", "e", " ", "a", "b", "o", "u", "t">> @@
    "self" :> <<"s", "e", "l", "f">> @@
    "education" :> <<"e", "d", "u", "c", "a", "t", "i", "o", "n">> @@
    "career" :> <<"c", "a", "r", "e", "e", "r">> @@
    "experience" :> <<"e", "x", "p", "e", "r", "i", "e", "n", "c", "e">> @@
    "background" :> <<"b", "a", "c", "k", "g", "r", "o", "u", "n", "d">> @@
    "design" :> <<"d", "e", "s", "i", "g", "n">> @@
    "photo" :> <<"p", "h", "o", "t", "o">> @@
    "image" :> <<"i", "m", "a", "g", "e">> @@
    "graphic" :> <<"g", "r", "a", "p", "h", "i", "c">> @@
    "can u develop kotlin api backend" :> <<"c", "a", "n", " ", "u", " ", "d", "e", "v", "e", "l", "o", "p", " ", "k", "o", "t", "l", "i", "n", " ", "a", "p", "i", " ", "b", "a", "c", "k", "e", "n", "d">> @@
    "tell me about your self" :> <<"t", "e", "l", "l", " ", "m", "e", " ", "a", "b", "o", "u", "t", " ", "y", "o", "u", "r", " ", "s", "e", "l", "f">> @@
    "education and career experience" :> <<"e", "d", "u", "c", "a", "t", "i", "o", "n", " ", "a", "n", "d", " ", "c", "a", "r", "e", "e", "r", " ", "e", "x", "p", "e", "r", "i", "e", "n", "c", "e">> @@
    "can u design a photo" :> <<"c", "a", "n", " ", "u", " ", "d", "e", "s", "i", "g", "n", " ", "a", " ", "p", "h", "o", "t", "o">> @@
    "what is machine learning" :> <<"w", "h", "a", "t", " ", "i", "s", " ", "m", "a", "c", "h", "i", "n", "e", " ", "l", "e", "a", "r", "n", "i", "n", "g">> @@
    "what is artificial intelligence" :> <<"w", "h", "a", "t", " ", "i", "s", " ", "a", "r", "t", "i", "f", "i", "c", "i", "a", "l", " ", "i", "n", "t", "e", "l", "l", "i", "g", "e", "n", "c", "e">> @@
    "what's artificial intelligence" :> <<"w", "h", "a", "t", "'", "s", " ", "a", "r", "t", "i", "f", "i", "c", "i", "a", "l", " ", "i", "n", "t", "e", "l", "l", "i", "g", "e", "n", "c", "e">> @@
    "Who Are You" :> <<"W", "h", "o", " ", "A", "r", "e", " ", "Y", "o", "u">> @@
    "tell me about AI" :> <<"t", "e", "l", "l", " ", "m", "e", " ", "a", "b", "o", "u", "t", " ", "A", "I">> @@
    "ML basics" :> <<"M", "L", " ", "b", "a", "s", "i", "c", "s">> @@
    "  Design A Photo " :> <<" ", " ", "D", "e", "s", "i", "g", "n", " ", "A", " ", "P", "h", "o", "t", "o", " ">> @@
    "tell me about education and career experience" :> <<"t", "e", "l", "l", " ", "m", "e", " ", "a", "b", "o", "u", "t", " ", "e", "d", "u", "c", "a", "t", "i", "o", "n", " ", "a", "n", "d", " ", "c", "a", "r", "e", "e", "r", " ", "e", "x", "p", "e", "r", "i", "e", "n", "c", "e">> @@
    "about kotlin" :> <<"a", "b", "o", "u", "t", " ", "k", "o", "t", "l", "i", "n">> @@
    "graphic design" :> <<"g", "r", "a", "p", "h", "i", "c", " ", "d", "e", "s", "i", "g", "n">> @@
    "weather" :> <<"w", "e", "a", "t", "h", "e", "r">> @@
    "   " :> <<" ", " ", " ">> @@
    "" :> <<>>

\* str.lower() on a sequence of characters: every upper-case letter becomes
\* the lower-case letter at the same place of the alphabet
Lower(chars) ==
    LET UpperCase == <<"A", "B", "C", "D", "E", "F", "G", "H", "I", "J", "K", "L", "M",
                       "N", "O", "P", "Q", "R", "S", "T", "U", "V", "W", "X", "Y", "Z">>
        LowerCase == <<"a", "b", "c", "d", "e", "f", "g", "h", "i", "j", "k", "l", "m",
                       "n", "o", "p", "q", "r", "s", "t", "u", "v", "w", "x", "y", "z">>
    IN  [i \in 1..Len(chars) |->
            IF \E j \in 1..Len(UpperCase) : UpperCase[j] = chars[i]
            THEN LowerCase[CHOOSE j \in 1..Len(UpperCase) : UpperCase[j] = chars[i]]
            ELSE chars[i]]

\* a in b, for two str values
IsSubstring(a, b) ==
    \E i \in 0..(Len(b) - Len(a)) : SubSeq(b, i + 1, i + Len(a)) = a

\* the keyword lists of search_knowledge_base
ai_keywords == << CharsOf["ai"], CharsOf["artificial intelligence"], CharsOf["artificial"], CharsOf["intelligence"] >>
ml_keywords == << CharsOf["ml"], CharsOf["machine learning"], CharsOf["machine"], CharsOf["learning"] >>
kotlin_keywords == << CharsOf["kotlin"], CharsOf["api"], CharsOf["backend"], CharsOf["development"], CharsOf["develop"] >>
about_keywords == << CharsOf["about"], CharsOf["yourself"], CharsOf["who are you"], CharsOf["tell me about"], CharsOf["self"] >>
education_keywords == << CharsOf["education"], CharsOf["career"], CharsOf["experience"], CharsOf["background"] >>
design_keywords == << CharsOf["design"], CharsOf["photo"], CharsOf["image"], CharsOf["graphic"] >>

\* the keyword lists the second loop tests on an entry, in the order it tests them
KeywordGroups_NoDesign == << about_keywords, education_keywords, kotlin_keywords >>

KeywordGroups == << about_keywords, education_keywords, kotlin_keywords, design_keywords >>

\* any(keyword in text for keyword in keywords)
AnyKeyword(keywords, text) ==
    \E k \in 1..Len(keywords) : IsSubstring(keywords[k], text)

\* not entry.get('question'): the entry has no question, or an empty one
NoQuestion(entry) ==
    ("question" \notin DOMAIN entry) \/ entry.question = ""

\* entry['question'].lower()
EntryQuestionLower(entry) == Lower(CharsOf[entry.question])

\* a test of the first loop that knows equality only
DirectMatch_ExactOnly(question_lower, entry) ==
    /\ ~NoQuestion(entry)
    /\ question_lower = EntryQuestionLower(entry)

\* the tests of the first loop on one entry: equal, or one within the other
DirectMatch(question_lower, entry) ==
    /\ ~NoQuestion(entry)
    /\ \/ question_lower = EntryQuestionLower(entry)
       \/ IsSubstring(question_lower, EntryQuestionLower(entry))
       \/ IsSubstring(EntryQuestionLower(entry), question_lower)

\* the tests of the second loop on one entry: some keyword list has a keyword
\* in the question asked and a keyword in the question of the entry
KeywordMatch(question_lower, entry) ==
    /\ ~NoQuestion(entry)
    /\ \E g \in 1..Len(KeywordGroups) :
          /\ AnyKeyword(KeywordGroups[g], question_lower)
          /\ AnyKeyword(KeywordGroups[g], EntryQuestionLower(entry))

\* the two loops of search_knowledge_base over the entries: the first entry
\* the first loop returns, else the first entry the second loop returns, else None
SearchEntries(question, knowledge_data) ==
    LET question_lower == Lower(Strip(CharsOf[question]))
        direct == { i \in 1..Len(knowledge_data) : DirectMatch(question_lower, knowledge_data[i]) }
        keyword == { i \in 1..Len(knowledge_data) : KeywordMatch(question_lower, knowledge_data[i]) }
        First(S) == CHOOSE i \in S : \A j \in S : i <= j
    IN
    IF direct # {} THEN knowledge_data[First(direct)]
    ELSE IF keyword # {} THEN knowledge_data[First(keyword)]
    ELSE None

\* not question or not question.strip()
BlankQuestion(question) == Strip(CharsOf[question]) = <<>>

\* the lists the live source answers a search with: besides the entries of
\* LiveLists, entries with other questions and one without a question
SearchLists ==
    LET LiveEntryC == [_id |-> "live-c", question |-> "what's artificial intelligence"]
        LiveEntryD == [_id |-> "live-d", question |-> "Who Are You"]
        LiveEntryE == [_id |-> "live-e"]
    IN  { <<>>, <<LiveEntryC>>, <<LiveEntryA>>, <<LiveEntryE, LiveEntryD, LiveEntryC>> }

\* what the live request does during a search: a list, or a timeout
SearchOutcomes ==
    { o \in LiveOutcomes : o.kind = "raise" /\ o.exc = "Timeout" }
    \cup
    [kind : {"response"}, exc : {"none"}, status_code : {200},
     body : [json : {"list"}, data : SearchLists]]

\* the questions asked
SearchQuestions ==
    { "tell me about AI", "ML basics", "  Design A Photo ", "tell me about education and career experience", "about kotlin",
      "graphic design", "weather", "   ", "" }

\* search_knowledge_base(question), the live source behaving as o and answering after d seconds
search_knowledge_base(question, o, d) ==
    IF BlankQuestion(question) THEN
        /\ d = 0
        /\ call' = [NoCall EXCEPT !.op = "search", !.question = question]
        /\ UNCHANGED <<cache, last_cache_time, now>>
        /\ UNCHANGED matchVars
        /\ UNCHANGED thrVars
    ELSE
        LET f == FetchCall(FALSE, o, d)
            knowledge_data == f.call.ret
        IN
        /\ f.ok
        /\ cache' = f.cache
        /\ last_cache_time' = f.last_cache_time
        /\ now' = f.now
        /\ call' = [f.call EXCEPT !.op = "search", !.question = question,
                                  !.found = IF f.call.raised # "none" \/ knowledge_data = <<>>
                                            THEN None
                                            ELSE SearchEntries(question, knowledge_data)]
        /\ UNCHANGED matchVars
        /\ UNCHANGED thrVars

Search == \E question \in SearchQuestions, o \in SearchOutcomes : search_knowledge_base(question, o, 0)

\* between two searches the clock advances by the life of a record or by half of it
SearchNext == Search \/ Clear \/ Expire \/ Tick(cache_expiry \div 2)

SearchSpec == Init /\ [][SearchNext]_vars

-----------------------------------------------------------------------------
(* The endpoints /query and /query/batch (app/api/routes.py) *)

\* JSON values of a request field: the field is absent, null, a number
\* (thresholds in hundredths), a boolean or a string
Absent == [type |-> "absent"]

JsonNull == [type |-> "null"]

JsonNumber(n) == [type |-> "number", value |-> n]

JsonBool(b) == [type |-> "bool", truth |-> b]

JsonString(t) == [type |-> "str", text |-> t]

\* the values of the field threshold
RequestThresholds ==
    { Absent, JsonNull, JsonNumber(0), JsonNumber(80), JsonNumber(100), JsonNumber(150),
      JsonNumber(-10), JsonBool(TRUE), JsonBool(FALSE), JsonString("0.5") }

\* float(x) for a number or a boolean, in hundredths
AsFloat(x) ==
    IF x.type = "bool" THEN (IF x.truth THEN 100 ELSE 0) ELSE x.value

\* ThresholdValidator.validate_threshold; isinstance(x, (int, float)) holds
\* for a bool, bool being a subclass of int
validate_threshold(threshold) ==
    /\ threshold.type \in {"number", "bool"}
    /\ 0 <= AsFloat(threshold)
    /\ AsFloat(threshold) <= 100

\* ThresholdValidator.get_effective_threshold
get_effective_threshold(provided_threshold) ==
    IF provided_threshold.type # "null" THEN
        IF ~validate_threshold(provided_threshold)
        THEN [raised |-> "ValueError", value |-> 0]
        ELSE [raised |-> "none", value |-> AsFloat(provided_threshold)]
    ELSE IF ~validate_threshold(JsonNumber(SIMILARITY_THRESHOLD))
    THEN [raised |-> "none", value |-> 60]
    ELSE [raised |-> "none", value |-> SIMILARITY_THRESHOLD]

\* the validation of the optional threshold: custom_threshold, or the error
RequestThreshold(data) ==
    IF data.threshold.type = "absent"
    THEN [raised |-> "none", custom_threshold |-> None]
    ELSE LET e == get_effective_threshold(data.threshold) IN
         IF e.raised # "none"
         THEN [raised |-> e.raised, custom_threshold |-> None]
         ELSE [raised |-> "none", custom_threshold |-> Some(e.value)]

\* custom_threshold or current_app.config.get('SIMILARITY_THRESHOLD', 0.6):
\* None and 0.0 are both false
ThresholdUsed(custom_threshold) ==
    IF IsNone(custom_threshold) \/ custom_threshold.value = 0
    THEN SIMILARITY_THRESHOLD
    ELSE custom_threshold.value

\* a document of the collection with a question and a dict of answers
DbDoc(id, chars) == [_id |-> id, question |-> Str(chars), answers |-> [type |-> "dict"]]

\* a document without answers
DbDocNoAnswers(id, chars) == [_id |-> id, question |-> Str(chars)]

\* the collections: empty; of documents without answers; of a blank question;
\* of a question opposite to every question asked; of two and three documents
\* with a blank one or one without answers among them; of two equal questions
Collections ==
    { <<>>,
      << DbDocNoAnswers("5", <<"b">>) >>,
      << DbDoc("4", <<" ">>) >>,
      << DbDoc("2", <<"z">>) >>,
      << DbDoc("1", <<"a">>), DbDoc("3", <<"a", "a", "a", "b", "b", "b", "b">>) >>,
      << DbDoc("3", <<"a", "a", "a", "b", "b", "b", "b">>), DbDoc("4", <<" ">>), DbDoc("1", <<"a">>) >>,
      << DbDoc("2", <<"z">>), DbDocNoAnswers("5", <<"b">>), DbDoc("3", <<"a", "a", "a", "b", "b", "b", "b">>) >>,
      << DbDoc("1", <<"a">>), DbDoc("6", <<"a">>) >> }

\* DocumentService.validate_document_structure
validate_document_structure(document) ==
    /\ "question" \in DOMAIN document
    /\ "answers" \in DOMAIN document
    /\ document.answers.type = "dict"

\* DocumentService.get_questions_for_embedding on the collection db;
\* db_ok tells whether the database answers
get_questions_for_embedding(db, db_ok) ==
    IF ~db_ok THEN [raised |-> "RuntimeError", documents |-> <<>>]
    ELSE [raised |-> "none",
          documents |-> SelectSeq(db, LAMBDA doc : validate_document_structure(doc))]

\* EmbeddingService.embed_text
embed_text(text, model_loaded) ==
    IF text = <<>> \/ Strip(text) = <<>> THEN [raised |-> "ValueError", embedding |-> <<>>]
    ELSE IF ~model_loaded THEN [raised |-> "RuntimeError", embedding |-> <<>>]
    ELSE [raised |-> "none", embedding |-> Encode(Strip(text))]

\* the questions of the requests
RequestQuestions == { Str(<<"a">>), Str(<<" ", "a">>), Str(<<"b">>), Str(<<" ">>), NoneValue }

\* not isinstance(question, str) or not question.strip()
BadQuestion(question) ==
    question.type # "str" \/ Strip(question.chars) = <<>>

\* the response of an endpoint, with the request it answers (request), the
\* calls the handler made (stages), custom_threshold and the threshold the
\* matcher was given (applied)
NoResponse ==
    [op |-> "none", status_code |-> 0, error |-> "", request |-> Absent,
     custom_threshold |-> None, stages |-> {}, applied |-> None,
     best_similarity |-> None, threshold_used |-> None,
     total_documents_searched |-> None, matched |-> None, match_index |-> None,
     results |-> <<>>, failing |-> {}, top_k |-> None]

\* query_endpoint on the request body data
QueryEndpoint(data, db, db_ok, model_loaded) ==
    LET base == [NoResponse EXCEPT !.op = "query", !.request = data] IN
    IF BadQuestion(data.question) THEN
        [base EXCEPT !.status_code = 400,
                     !.error = "Field \"question\" must be a non-empty string"]
    ELSE
    LET th == RequestThreshold(data) IN
    IF th.raised # "none" THEN
        [base EXCEPT !.status_code = 400, !.error = "Invalid threshold"]
    ELSE
    LET custom_threshold == th.custom_threshold
        got == get_questions_for_embedding(db, db_ok)
        r1 == [base EXCEPT !.custom_threshold = custom_threshold, !.stages = {"documents"}]
    IN
    IF got.raised # "none" THEN
        [r1 EXCEPT !.status_code = 500, !.error = "Database error occurred"]
    ELSE IF got.documents = <<>> THEN
        [r1 EXCEPT !.status_code = 503, !.error = "No data available for search"]
    ELSE
    LET e == EmbedQuestionsFromDocuments(got.documents, model_loaded)
        q == embed_text(Strip(data.question.chars), model_loaded)
        r2 == [r1 EXCEPT !.stages = {"documents", "embedding"}]
    IN
    IF e.raised # "none" \/ q.raised # "none" THEN
        [r2 EXCEPT !.status_code = 500, !.error = "Failed to process query - embedding error"]
    ELSE
    LET best == FindBestMatch(q.embedding, e.embeddings, e.valid_documents, custom_threshold)
        r3 == [r2 EXCEPT !.stages = {"documents", "embedding", "similarity"},
                         !.applied = custom_threshold]
    IN
    IF best.raised # "none" THEN
        [r3 EXCEPT !.status_code = 500,
                   !.error = "Failed to process query - similarity calculation error"]
    ELSE IF IsNone(best.document) THEN
        [r3 EXCEPT !.status_code = 404, !.error = "No matching data found.",
                   !.best_similarity = Some(best.score),
                   !.threshold_used = Some(ThresholdUsed(custom_threshold)),
                   !.total_documents_searched = Some(Len(e.valid_documents))]
    ELSE
        [r3 EXCEPT !.status_code = 200, !.matched = best.document,
                   !.best_similarity = Some(best.score),
                   !.threshold_used = Some(ThresholdUsed(custom_threshold)),
                   !.total_documents_searched = Some(Len(e.valid_documents)),
                   !.match_index = Some(best.index)]

\* the values of the field top_k
RequestTopK == { Absent, JsonNumber(0), JsonNumber(2), JsonString("2") }

\* the values of the field threshold of the batch requests
BatchThresholds == { Absent, JsonNumber(0), JsonNumber(150), JsonBool(TRUE) }

\* the lists of questions of a batch request
BatchQuestions == SeqsUpTo({ Str(<<"a">>), Str(<<"b">>) }, MaxBatch) \cup { << Str(<<" ">>) >> }

\* the item appended when the processing of question i raises
ErrorItem(i, question) ==
    [question_index |-> i - 1, query |-> question,
     error |-> "Failed to process this question", matches |-> <<>>]

\* an entry of matches
MatchItem(document, score) ==
    [matched_question |-> document.question, answers |-> document.answers,
     similarity_score |-> score, document_id |-> document._id]

\* the items the try block appends for question i when nothing raises; there
\* are several when np.argsort may order equal similarities in several ways
ItemsWithoutError(i, question, query_embedding, embeddings, docs, top_k, custom_threshold) ==
    IF top_k = 1 THEN
        LET best == FindBestMatch(query_embedding, embeddings, docs, custom_threshold) IN
        IF best.raised # "none" THEN { ErrorItem(i, question) }
        ELSE IF ~IsNone(best.document) THEN
            { [question_index |-> i - 1, query |-> question, error |-> "",
               matches |-> << MatchItem(best.document, best.score) >>] }
        ELSE
            { [question_index |-> i - 1, query |-> question, error |-> "", matches |-> <<>>] }
    ELSE
        LET early == TopMatchesEarly(query_embedding, embeddings, docs, top_k, custom_threshold) IN
        IF early.raised # "none" THEN { ErrorItem(i, question) }
        ELSE IF early.op # "sorting" THEN
            { [question_index |-> i - 1, query |-> question, error |-> "", matches |-> <<>>] }
        ELSE
            { [question_index |-> i - 1, query |-> question, error |-> "",
               matches |-> [k \in 1..Len(top.matches) |->
                               MatchItem(top.matches[k].document, top.matches[k].score)]] :
              top \in { GetTopMatches(query_embedding, embeddings, docs, top_k, custom_threshold, p) :
                        p \in ArgSorts(calculate_cosine_similarity(query_embedding, embeddings).similarities) } }

\* the items the loop body appends for question i; failing tells whether
\* embed_text raises for it
ItemResults(i, question, failing, embeddings, docs, top_k, custom_threshold) ==
    LET q == embed_text(Strip(question.chars), ~failing) IN
    IF q.raised # "none" THEN { ErrorItem(i, question) }
    ELSE ItemsWithoutError(i, question, q.embedding, embeddings, docs, top_k, custom_threshold)

\* a loop that ends at the first question whose processing raises
LoopFrom_StopsAtError(items, rest, raised) ==
    IF raised THEN { <<item>> : item \in items }
    ELSE { <<item>> \o later : item \in items, later \in rest }

\* one turn of the loop: the items of this question, then those of the later
\* ones, whether this one raised or not
LoopFrom(items, rest, raised) ==
    { <<item>> \o later : item \in items, later \in rest }

\* the loop over the questions from position i on: the lists of results it can build
RECURSIVE BatchLoop(_, _, _, _, _, _, _)
BatchLoop(i, questions, failing, embeddings, docs, top_k, custom_threshold) ==
    IF i > Len(questions) THEN { <<>> }
    ELSE LoopFrom(ItemResults(i, questions[i], i \in failing, embeddings, docs, top_k, custom_threshold),
                  BatchLoop(i + 1, questions, failing, embeddings, docs, top_k, custom_threshold),
                  i \in failing)

\* batch_query_endpoint on the request body data: the responses it can give;
\* failing is the set of positions of the questions embed_text raises for
BatchEndpoint(data, db, db_ok, model_loaded, failing) ==
    LET base == [NoResponse EXCEPT !.op = "batch", !.request = data, !.failing = failing] IN
    IF data.questions = <<>> THEN
        { [base EXCEPT !.status_code = 400, !.error = "Field \"questions\" must be a non-empty list"] }
    ELSE IF \E i \in 1..Len(data.questions) : BadQuestion(data.questions[i]) THEN
        { [base EXCEPT !.status_code = 400, !.error = "Question must be a non-empty string"] }
    ELSE
    LET th == RequestThreshold(data) IN
    IF th.raised # "none" THEN
        { [base EXCEPT !.status_code = 400, !.error = "Invalid threshold"] }
    ELSE
    LET custom_threshold == th.custom_threshold
        top_k == IF data.top_k.type = "absent" THEN JsonNumber(1) ELSE data.top_k
    IN
    IF top_k.type # "number" \/ top_k.value < 1 \/ top_k.value > 10 THEN
        { [base EXCEPT !.status_code = 400,
                       !.error = "Field \"top_k\" must be an integer between 1 and 10"] }
    ELSE
    LET got == get_questions_for_embedding(db, db_ok)
        r1 == [base EXCEPT !.custom_threshold = custom_threshold, !.stages = {"documents"},
                           !.top_k = Some(top_k.value)]
    IN
    IF got.raised # "none" THEN
        { [r1 EXCEPT !.status_code = 500,
                     !.error = "An unexpected error occurred while processing batch query"] }
    ELSE IF got.documents = <<>> THEN
        { [r1 EXCEPT !.status_code = 503, !.error = "No data available for search"] }
    ELSE
    LET e == EmbedQuestionsFromDocuments(got.documents, model_loaded)
        r2 == [r1 EXCEPT !.stages = {"documents", "embedding"}]
    IN
    IF e.raised # "none" THEN
        { [r2 EXCEPT !.status_code = 500,
                     !.error = "An unexpected error occurred while processing batch query"] }
    ELSE
        { [r2 EXCEPT !.status_code = 200, !.results = results,
                     !.stages = {"documents", "embedding", "similarity"},
                     !.applied = custom_threshold,
                     !.threshold_used = Some(ThresholdUsed(custom_threshold)),
                     !.total_documents_searched = Some(Len(e.valid_documents))] :
          results \in BatchLoop(1, data.questions, failing, e.embeddings, e.valid_documents,
                                top_k.value, custom_threshold) }

\* a request to /query
query_endpoint(data, db_ok, model_loaded) ==
    /\ result.op = "none"
    /\ result' = QueryEndpoint(data, documents, db_ok, model_loaded)
    /\ UNCHANGED <<documents, document_embeddings>>
    /\ UNCHANGED svcVars
    /\ UNCHANGED thrVars

\* a request to /query/batch
batch_query_endpoint(data, db_ok, model_loaded, failing) ==
    /\ result.op = "none"
    /\ result' \in BatchEndpoint(data, documents, db_ok, model_loaded, failing)
    /\ UNCHANGED <<documents, document_embeddings>>
    /\ UNCHANGED svcVars
    /\ UNCHANGED thrVars

\* one of the collections
RouteInit ==
    /\ cache = EmptyDict
    /\ last_cache_time = 0
    /\ now = StartTime
    /\ call = NoCall
    /\ documents \in Collections
    /\ document_embeddings = <<>>
    /\ result = NoResult
    /\ pc = [t \in Threads |-> "idle"]
    /\ local = [t \in Threads |-> NoLocal]
    /\ gen = NoWrites

Query ==
    /\ result.op = "none"
    /\ \E question \in RequestQuestions, threshold \in RequestThresholds,
          db_ok \in BOOLEAN, model_loaded \in BOOLEAN :
           query_endpoint([question |-> question, threshold |-> threshold], db_ok, model_loaded)

BatchQuery ==
    /\ result.op = "none"
    /\ \E questions \in BatchQuestions, threshold \in BatchThresholds, top_k \in RequestTopK,
          db_ok \in BOOLEAN, model_loaded \in BOOLEAN :
           \E failing \in SUBSET (1..Len(questions)) :
               batch_query_endpoint([questions |-> questions, threshold |-> threshold, top_k |-> top_k],
                                    db_ok, model_loaded, failing)

RouteNext == Query \/ BatchQuery \/ TakeResult

RouteSpec == RouteInit /\ [][RouteNext]_vars

-----------------------------------------------------------------------------
(* The preparation of the candidate set from the raw records of the
   collection, as both endpoints do it: get_questions_for_embedding, then
   embed_questions_from_documents on what it returned *)

\* what the two calls leave: the kept documents and their embeddings, or the
\* exception the second call raises; an empty list from the first call ends
\* the request before the second call
PrepareCandidates(db, model_loaded) ==
    LET g == get_questions_for_embedding(db, TRUE)
        base == [NoResult EXCEPT !.op = "prepare", !.model_loaded = model_loaded]
    IN  IF g.documents = <<>>
        THEN [base EXCEPT !.message = "No data available for search"]
        ELSE [EmbedQuestionsFromDocuments(g.documents, model_loaded) EXCEPT !.op = "prepare"]

\* a request prepares the candidates from the collection
prepare_candidates ==
    /\ result.op = "none"
    /\ \E model_loaded \in BOOLEAN : result' = PrepareCandidates(documents, model_loaded)
    /\ UNCHANGED <<documents, document_embeddings>>
    /\ UNCHANGED svcVars
    /\ UNCHANGED thrVars

\* a collection of up to MaxRaw raw records: each record has an _id, a
\* question of any of the values of QuestionValues or none, and answers that
\* are a dict or a list, or none
PrepInit ==
    /\ cache = EmptyDict
    /\ last_cache_time = 0
    /\ now = StartTime
    /\ call = NoCall
    /\ documents \in
          LET answers == { [type |-> "dict"], [type |-> "list"] }
              records ==
                  { [_id |-> "r", question |-> q, answers |-> a] : q \in QuestionValues, a \in answers }
                  \cup { [_id |-> "r", question |-> q] : q \in QuestionValues }
                  \cup { [_id |-> "r", answers |-> a] : a \in answers }
          IN  SeqsUpTo(records, MaxRaw)
    /\ document_embeddings = <<>>
    /\ result = NoResult
    /\ pc = [t \in Threads |-> "idle"]
    /\ local = [t \in Threads |-> NoLocal]
    /\ gen = NoWrites

PrepNext == prepare_candidates \/ TakeResult

PrepSpec == PrepInit /\ [][PrepNext]_vars

-----------------------------------------------------------------------------
(* The external ranker protocol, as section 4.4 of the specification
   describes it: rank(query, candidateQuestions) -> matched text | none *)

\* the fixed confidence threshold of the protocol, in hundredths
CONFIDENCE_THRESHOLD == 70

\* the sentinel string by which the scorer says that it found nothing
NotFoundSentinel == "not found"

\* the questions of knowledge entries, and one no entry has
RankQuestions == { "what is machine learning", "what is artificial intelligence",
                   "tell me about your self" }

HallucinatedQuestion == "what is deep learning"

\* the entry sequences: the one the candidate list is taken from, and the
\* current one when the answer arrives
RankEntries ==
    { <<>>,
      << LiveEntryA >>,
      << LiveEntryB, LiveEntryA >>,
      << LiveEntryA, mock_data[2] >> }

\* the candidate list sent: the questions of the entries, in order
CandidateQuestions(entries) == [i \in 1..Len(entries) |-> entries[i].question]

\* what comes back from the scorer: a transport failure, a timeout, a
\* malformed payload, or a payload with a score and a string under "match"
\* or under "result"
ScorerResponses ==
    [kind : {"transport_failure", "timeout", "malformed"}, field : {"none"}, text : {""}, score : {0}]
    \cup
    [kind : {"payload"}, field : {"match", "result"},
     text : RankQuestions \cup {HallucinatedQuestion, NotFoundSentinel, ""},
     score : {0, 69, 70, 100}]

\* the record of a call of rank
NoRank ==
    [op |-> "none", raised |-> "none", query |-> "", sent |-> <<>>, response |-> None,
     accepted |-> FALSE, matched |-> None, entry |-> None]

\* an acceptance rule without condition (c)
Accepts_WithoutMembership(response, sent) ==
    /\ response.kind = "payload"
    /\ response.text # ""
    /\ response.text # NotFoundSentinel
    /\ response.score >= CONFIDENCE_THRESHOLD

\* the acceptance rule: (a) a matched-question string is present and is not
\* the sentinel, (b) the score reaches the confidence threshold, (c) the
\* string is a verbatim member of the candidate list sent
Accepts(response, sent) ==
    /\ response.kind = "payload"
    /\ response.text # ""
    /\ response.text # NotFoundSentinel
    /\ response.score >= CONFIDENCE_THRESHOLD
    /\ \E i \in 1..Len(sent) : sent[i] = response.text

\* the entry of the current sequence whose question is the string, or None
Resolve(text, current) ==
    IF \E i \in 1..Len(current) : current[i].question = text
    THEN current[CHOOSE i \in 1..Len(current) :
                     /\ current[i].question = text
                     /\ \A j \in 1..(i - 1) : current[j].question # text]
    ELSE None

\* rank: the candidate list of entries is sent, the scorer answers with
\* response, and an accepted string is resolved against the current entries
Rank(query, entries, response, current) ==
    LET sent == CandidateQuestions(entries)
        base == [NoRank EXCEPT !.op = "rank", !.query = query, !.sent = sent,
                               !.response = response]
    IN
    IF ~Accepts(response, sent) THEN base
    ELSE [base EXCEPT !.accepted = TRUE, !.matched = Some(response.text),
                      !.entry = Resolve(response.text, current)]

\* a call of rank while the entries are those of documents
rank(query, response, current) ==
    /\ result.op = "none"
    /\ result' = Rank(query, documents, response, current)
    /\ UNCHANGED <<documents, document_embeddings>>
    /\ UNCHANGED svcVars
    /\ UNCHANGED thrVars

RankInit ==
    /\ cache = EmptyDict
    /\ last_cache_time = 0
    /\ now = StartTime
    /\ call = NoCall
    /\ documents \in RankEntries
    /\ document_embeddings = <<>>
    /\ result = NoResult
    /\ pc = [t \in Threads |-> "idle"]
    /\ local = [t \in Threads |-> NoLocal]
    /\ gen = NoWrites

RankCall ==
    /\ result.op = "none"
    /\ \E response \in ScorerResponses, current \in RankEntries :
           rank("tell me about AI", response, current)

RankNext == RankCall \/ TakeResult

RankSpec == RankInit /\ [][RankNext]_vars

-----------------------------------------------------------------------------
(* Properties of KnowledgeBaseService, checked under Spec *)

\* every entry the service can hold
KnownEntries ==
    {mock_data[i] : i \in 1..Len(mock_data)} \cup {LiveEntryA, LiveEntryB}

\* the classes of a failed live retrieval
FailureClasses ==
    {"timeout", "connection_error", "request_error", "exception",
     "status_401", "status_403", "status_404", "status_other",
     "non_list", "json_error"}

\* the cache record the fallback leaves
FallbackRecord == [data |-> mock_data, status |-> "fallback", count |-> Len(mock_data)]

\* a record is held and its age is below cache_expiry
RecordFresh == cache # EmptyDict /\ now - last_cache_time < cache_expiry

\* C1: fetch_knowledge_base never raises: in every cache state and for every
\* behaviour of the live source the call can be made, it ends without an
\* exception, and what it returns is a sequence of entries.
C1_FetchNeverRaises ==
    /\ \A use_mock \in BOOLEAN, o \in LiveOutcomes : ENABLED fetch_knowledge_base(use_mock, o, 0)
    /\ call.op = "fetch" =>
          /\ call.raised = "none"
          /\ \A i \in 1..Len(call.ret) : call.ret[i] \in KnownEntries

\* C1 witness: the source raised an exception of no class the code names, and
\* the call returned the static dataset.
C1_Witness ==
    /\ call.op = "fetch"
    /\ call.cls = "exception"
    /\ call.raised = "none"
    /\ call.ret = mock_data

\* C2: after a fetch whose live retrieval failed, whatever the class of the
\* failure, the call has returned the static dataset and the cache holds
\* exactly that dataset, with status 'fallback' and the time of the store.
C2_FailureFallsBack ==
    (call.op = "fetch" /\ call.cls \in FailureClasses) =>
        /\ call.raised = "none"
        /\ call.ret = mock_data
        /\ cache = FallbackRecord
        /\ last_cache_time = now

\* C2 witness: a response whose body is no JSON, answered after the request
\* took its time, left the fallback record in the cache.
C2_Witness ==
    /\ call.op = "fetch"
    /\ call.cls = "json_error"
    /\ cache = FallbackRecord
    /\ last_cache_time = now
    /\ now > StartTime

\* C3: a fetch made while a record is held and its age is below cache_expiry
\* returns the entries of that record, does not contact the live source and
\* leaves the record alone; a fetch made when no record is held or its age has
\* reached cache_expiry acquires a dataset anew and stores it.
C3_CacheFreshness ==
    [][ call'.op = "fetch" =>
          IF RecordFresh
          THEN /\ call'.ret = cache.data
               /\ call'.live_calls = 0
               /\ call'.fallbacks = 0
               /\ UNCHANGED <<cache, last_cache_time>>
          ELSE /\ ~call'.hit
               /\ call'.use_mock \/ call'.live_calls = 1
               /\ cache'.data = call'.ret
               /\ last_cache_time' = now'
      ]_vars

\* C3 witness: a fetch answered from a record of age 285 s.
C3_Witness ==
    /\ call.op = "fetch"
    /\ call.hit
    /\ call.ret # <<>>
    /\ now - last_cache_time = cache_expiry - 15

\* C4: a fresh record is returned first, with no live retrieval and no
\* fallback; the live source is contacted only when no fresh record is held;
\* and when the source answers 200 with a list, that list is stored with the
\* status of a live result ('success' in the code) and returned, the static
\* dataset not being used.
C4_TierPriority ==
    [][ call'.op = "fetch" =>
          /\ RecordFresh =>
                (call'.hit /\ call'.ret = cache.data /\ call'.live_calls = 0 /\ call'.fallbacks = 0)
          /\ call'.live_calls > 0 => ~RecordFresh
          /\ call'.cls = "live_list" =>
                /\ call'.ret = call'.live_data
                /\ call'.fallbacks = 0
                /\ cache' = [data |-> call'.live_data, status |-> "success",
                             count |-> Len(call'.live_data)]
                /\ last_cache_time' = now'
      ]_vars

\* C4 witness: the source answered with a list of two entries, which is what
\* the call returned and what the cache holds.
C4_Witness ==
    /\ call.op = "fetch"
    /\ call.cls = "live_list"
    /\ call.ret = <<LiveEntryB, LiveEntryA>>
    /\ cache.status = "success"
    /\ cache.data = call.ret

\* the cache holds a record: its entries are not empty or its provenance is not 'none'
HoldsRecord ==
    \/ Len(DictGet(cache, "data", <<>>)) > 0
    \/ (IF DictTruthy(cache) THEN DictGet(cache, "status", "none") ELSE "none") # "none"

\* C20: in every state reached by calls of fetch_knowledge_base (with and
\* without use_mock, whatever the live source does) and of clear_cache,
\* last_cache_time is set (not 0) if and only if the cache holds a record.
C20_TimeSetIffRecord == (last_cache_time # 0) <=> HoldsRecord

\* a fetch has stored an empty list the live source answered with: a record
\* without entries, of provenance 'success', with its time stamp
C20_Witness ==
    /\ call.op = "fetch"
    /\ call.cls = "live_list"
    /\ DictTruthy(cache)
    /\ DictGet(cache, "data", <<>>) = <<>>
    /\ DictGet(cache, "status", "none") = "success"
    /\ last_cache_time # 0

C24_NoSlidingExpiration ==
    [][ (call'.op = "fetch" /\ call'.hit) =>
          /\ UNCHANGED <<cache, last_cache_time>>
          /\ call'.ret = cache.data
          /\ now' - last_cache_time' < cache_expiry
          /\ last_cache_time' > 0
      ]_vars

\* a fetch answered from a live record stored 150 s earlier
C24_Witness ==
    /\ call.op = "fetch"
    /\ call.hit
    /\ call.ret = cache.data
    /\ now - last_cache_time = 150
    /\ cache.status = "success"

\* C26: failure is cached: a failed live retrieval stores the fallback record
\* with the time of the call, and while that record is held and its age is
\* below cache_expiry every fetch_knowledge_base returns the static dataset
\* from the cache without contacting the live source, however the source
\* would answer at that time.
C26_FailureIsCached ==
    [][ call'.op = "fetch" =>
          /\ (call'.fallbacks = 1) => (cache' = FallbackRecord /\ last_cache_time' = now')
          /\ (cache = FallbackRecord /\ now - last_cache_time < cache_expiry) =>
                 /\ call'.hit
                 /\ call'.ret = mock_data
                 /\ call'.live_calls = 0
                 /\ UNCHANGED <<cache, last_cache_time>>
      ]_vars

\* a fetch answered from the fallback record 285 s after the failure
C26_Witness ==
    /\ call.op = "fetch"
    /\ call.hit
    /\ call.live_calls = 0
    /\ cache = FallbackRecord
    /\ call.ret = mock_data
    /\ now - last_cache_time = cache_expiry - 15

-----------------------------------------------------------------------------
(* Properties of SimilarityCalculator, checked under SimSpec *)

\* the number of candidates of the call
NumDocs == Len(documents)

\* the call was given as many embeddings as documents, at least one, and each
\* embedding has the dimension of the query
WellFormedCall ==
    /\ Len(document_embeddings) = NumDocs
    /\ NumDocs > 0
    /\ \A i \in 1..NumDocs : Len(document_embeddings[i]) = Len(result.query)

\* the similarity of the query of the call and candidate i
Sim(i) == Cosine100(result.query, document_embeddings[i])

\* the largest similarity over the candidates
MaxSim == CHOOSE m \in {Sim(i) : i \in 1..NumDocs} : \A i \in 1..NumDocs : Sim(i) <= m

\* the threshold of the call: the one given, or the configured one when None was given
CallThreshold ==
    IF result.threshold = None THEN SIMILARITY_THRESHOLD ELSE result.threshold.value

\* C5: for a threshold within [0, 1] and a non-empty candidate set,
\* find_best_match returns the largest similarity and the index of a candidate
\* that has it, with document None when that similarity is below the threshold
\* and with the document at that index when it reaches the threshold.
C5_BestMatchThreshold ==
    (result.op = "best" /\ WellFormedCall /\ CallThreshold \in 0..100) =>
        /\ result.raised = "none"
        /\ result.score = MaxSim
        /\ result.index + 1 \in 1..NumDocs
        /\ Sim(result.index + 1) = MaxSim
        /\ MaxSim < CallThreshold => result.document = None
        /\ MaxSim >= CallThreshold => result.document = documents[result.index + 1]

\* C5 witness: the best of two candidates scores 0.60 under a threshold of
\* 0.80: no document, the score 0.60 and the index 1 are returned.
C5_Witness ==
    /\ result.op = "best"
    /\ WellFormedCall
    /\ result.threshold = Some(80)
    /\ result.document = None
    /\ result.score = 60
    /\ result.index = 1

\* C6: when several candidates share the largest similarity, find_best_match
\* selects the one with the smallest index.
C6_StableTieBreak ==
    (result.op = "best" /\ WellFormedCall) =>
        \A j \in 1..NumDocs : Sim(j) = MaxSim => result.index + 1 <= j

\* C6 witness: the second and the third of three candidates share the largest
\* similarity and the second is returned.
C6_Witness ==
    /\ result.op = "best"
    /\ WellFormedCall
    /\ NumDocs = 3
    /\ Sim(1) < MaxSim /\ Sim(2) = MaxSim /\ Sim(3) = MaxSim
    /\ result.index = 1
    /\ result.document = documents[2]

\* C7: the list get_top_matches returns is sorted by non-increasing score, holds
\* only candidates whose score reaches the threshold, each once and with its
\* own document and score, has length min(k, number of candidates reaching the
\* threshold), and no candidate left out scores higher than one returned.
C7_TopMatches ==
    (result.op = "top" /\ WellFormedCall) =>
        LET m == result.matches
            above == {i \in 1..NumDocs : Sim(i) >= CallThreshold}
            returned == {m[i].index + 1 : i \in 1..Len(m)}
        IN
        /\ result.raised = "none"
        /\ Len(m) = IF result.top_k < Cardinality(above) THEN result.top_k ELSE Cardinality(above)
        /\ \A i \in 1..Len(m) :
              /\ m[i].index + 1 \in 1..NumDocs
              /\ m[i].score = Sim(m[i].index + 1)
              /\ m[i].document = documents[m[i].index + 1]
              /\ m[i].score >= CallThreshold
        /\ \A i, j \in 1..Len(m) : i < j => (m[i].score >= m[j].score /\ m[i].index # m[j].index)
        /\ \A c \in (1..NumDocs) \ returned : \A i \in 1..Len(m) : Sim(c) <= m[i].score

\* C7 witness: three candidates, top_k = 3, and the list ends after two
\* entries of different scores because the third candidate is below the threshold.
C7_Witness ==
    /\ result.op = "top"
    /\ WellFormedCall
    /\ NumDocs = 3
    /\ result.top_k = 3
    /\ Len(result.matches) = 2
    /\ result.matches[1].score > result.matches[2].score
    /\ result.matches[1].index > result.matches[2].index

\* C8: whenever the number of documents differs from the number of embeddings,
\* find_best_match and get_top_matches raise the error of the length test,
\* before any similarity is computed, and return no match.
C8_AlignmentGuard ==
    (result.op \in {"best", "top"} /\ Len(documents) # Len(document_embeddings)) =>
        /\ result.raised = "ValueError"
        /\ result.message = "Number of documents must match number of embeddings"
        /\ ~result.sim_computed
        /\ result.document = None
        /\ result.matches = <<>>

\* C8 witness: no document and two embeddings, and the call raised.
C8_Witness ==
    /\ result.op = "best"
    /\ Len(documents) = 0
    /\ Len(document_embeddings) = 2
    /\ result.raised = "ValueError"

\* C9: with no document and no embedding, find_best_match returns
\* (None, 0.0, -1) without raising, whatever the query and the threshold.
C9_EmptyCandidateSet ==
    (result.op = "best" /\ documents = <<>> /\ document_embeddings = <<>>) =>
        /\ result.raised = "none"
        /\ result.document = None
        /\ result.score = 0
        /\ result.index = -1
        /\ ~result.sim_computed

\* C9 witness: the empty candidate set, a query of another dimension and a
\* threshold above 1, answered with (None, 0.0, -1).
C9_Witness ==
    /\ result.op = "best"
    /\ documents = <<>>
    /\ document_embeddings = <<>>
    /\ result.query = <<1, 0, 0>>
    /\ result.threshold = Some(150)
    /\ result.raised = "none"
    /\ result.index = -1

-----------------------------------------------------------------------------
(* Properties of EmbeddingService, checked under EmbedSpec *)

\* a document whose question field is present and is a text that is not
\* empty once its surrounding whitespace is removed
HasUsableQuestion(doc) ==
    /\ "question" \in DOMAIN doc
    /\ doc.question.type = "str"
    /\ Strip(doc.question.chars) # <<>>

-----------------------------------------------------------------------------
(* Properties of KnowledgeBaseService under concurrent request threads,
   checked under ThreadSpec *)

\* a thread has returned from get_cache_info
InfoReturned(t) == pc[t] = "idle" /\ local[t].op = "info"

\* C11: in every interleaving of fetch_knowledge_base, clear_cache and
\* get_cache_info, what a returned get_cache_info has read is one whole record:
\* the entries and status it read and the time stamp it read are those one
\* call wrote (the store of one fetch, one clear_cache, or __init__).
C11_NoTornRecord ==
    \A t \in Threads :
        InfoReturned(t) =>
            \E r \in gen.records :
                /\ local[t].saw_cache \subseteq {r.cache}
                /\ local[t].saw_time \subseteq {r.last_cache_time}

-----------------------------------------------------------------------------
(* Properties of search_knowledge_base, checked under SearchSpec *)

\* a search has returned whose question was not blank
Searched == call.op = "search" /\ ~BlankQuestion(call.question)

\* the search had no data: fetch_knowledge_base gave it an empty list
NoDataAvailable == Searched /\ call.ret = <<>>

\* the search had data and no entry matched
NoEntryMatched == Searched /\ call.ret # <<>> /\ call.found = None

\* C12: search_knowledge_base gives its caller a result from which "no data
\* available" can be told apart from "no entry matched": a search that had no
\* data does not return None, the value a search returns when it had entries
\* and none of them matched.
C12_NoDataToldApart == NoDataAvailable => call.found # None

\* the search looked at entries: fetch_knowledge_base gave it a list that is not empty
SearchedEntries == Searched /\ call.raised = "none" /\ call.ret # <<>>

\* the question asked, as the loops compare it
AskedLower == Lower(Strip(CharsOf[call.question]))

\* the question of the i-th entry the search looked at, as the loops compare it
EntryLower(i) == Lower(CharsOf[call.ret[i].question])

\* the i-th entry has a question
HasQuestion(i) == "question" \in DOMAIN call.ret[i] /\ call.ret[i].question # ""

\* the question asked and the i-th entry each contain a keyword of the list
SharesGroup(keywords, i) ==
    /\ HasQuestion(i)
    /\ \E k \in 1..Len(keywords) : IsSubstring(keywords[k], AskedLower)
    /\ \E k \in 1..Len(keywords) : IsSubstring(keywords[k], EntryLower(i))

\* the smallest number of a set of numbers that is not empty
Least(S) == CHOOSE i \in S : \A j \in S : i <= j

\* C16: a question and an entry that each contain a term of the AI group, or
\* each a term of the ML group, are matched by the keyword-group pass: the
\* search of "tell me about AI" in a dataset whose question is "what's
\* artificial intelligence" returns that entry, and in general such a search
\* returns an entry.
C16_AIGroupMatches ==
    SearchedEntries =>
        ((\E i \in 1..Len(call.ret) : SharesGroup(ai_keywords, i) \/ SharesGroup(ml_keywords, i))
            => call.found # None)

\* the entries whose question equals the question asked, contains it or is
\* contained in it, after lower-casing and trimming
DirectEntries ==
    { i \in 1..Len(call.ret) :
        /\ HasQuestion(i)
        /\ \/ EntryLower(i) = AskedLower
           \/ IsSubstring(AskedLower, EntryLower(i))
           \/ IsSubstring(EntryLower(i), AskedLower) }

\* C17: search_knowledge_base returns the first entry in original order whose
\* lower-cased question equals the lower-cased trimmed query, contains it or
\* is contained in it; whenever there is such an entry it is the result,
\* whatever keyword group other entries, earlier ones too, share with the query.
C17_DirectPassFirst ==
    (SearchedEntries /\ DirectEntries # {}) => call.found = call.ret[Least(DirectEntries)]

\* a search answered by the exact/substring pass with an entry that comes
\* after an entry sharing a keyword group with the question
C17_Witness ==
    /\ SearchedEntries
    /\ DirectEntries # {}
    /\ call.found = call.ret[Least(DirectEntries)]
    /\ \E i \in 1..(Least(DirectEntries) - 1) :
          SharesGroup(about_keywords, i) \/ SharesGroup(education_keywords, i)
            \/ SharesGroup(kotlin_keywords, i) \/ SharesGroup(design_keywords, i)

\* the groups of the keyword pass, in the order the code tests them
GroupOrder == << about_keywords, education_keywords, kotlin_keywords, design_keywords >>

\* the entries that share the g-th group with the question asked
Sharing(g) == { i \in 1..Len(call.ret) : SharesGroup(GroupOrder[g], i) }

\* the groups the question asked shares with some entry
SharedGroups == { g \in 1..Len(GroupOrder) : Sharing(g) # {} }

\* the entries that share some group with the question asked
SharingAny == UNION { Sharing(g) : g \in 1..Len(GroupOrder) }

\* C18 as stated: if the highest-priority group shared by the query and some
\* entry is G, the keyword-group pass returns the first entry that shares G
\* with the query, even when an earlier entry shares a lower-priority group only.
C18_FirstGroupWins ==
    (SearchedEntries /\ DirectEntries = {} /\ SharedGroups # {})
        => call.found = call.ret[Least(Sharing(Least(SharedGroups)))]

\* C18, amended: the keyword-group pass goes through the entries in original
\* order and tests every group on each; it returns the first entry that shares
\* any group with the query, and None when no entry shares one.
C18_FirstEntryWins ==
    (SearchedEntries /\ DirectEntries = {}) =>
        IF SharingAny # {} THEN call.found = call.ret[Least(SharingAny)] ELSE call.found = None

\* a search answered by the keyword pass with an entry that shares a group of
\* lower priority, a later entry sharing the group of highest priority
C18_Witness ==
    /\ SearchedEntries
    /\ DirectEntries = {}
    /\ SharingAny # {}
    /\ call.found = call.ret[Least(SharingAny)]
    /\ Least(SharingAny) \notin Sharing(Least(SharedGroups))
    /\ Least(SharingAny) < Least(Sharing(Least(SharedGroups)))

-----------------------------------------------------------------------------
(* Properties of the endpoints, checked under RouteSpec *)

\* a response of /query or of /query/batch
Responded == result.op \in {"query", "batch"}

\* a threshold that is no number: a boolean or a string (null is taken as omitted)
NonNumeric(threshold) == threshold.type \in {"bool", "str"}

\* a number outside [0, 1]
OutOfRange(threshold) ==
    threshold.type = "number" /\ (threshold.value < 0 \/ threshold.value > 100)

\* C13: a request to /query or /query/batch whose threshold is non-numeric or
\* outside [0, 1] is answered 400 before any document retrieval, embedding or
\* similarity computation, and every threshold that passes the validation is
\* a number within [0, 1].
C13_InvalidThresholdRejected ==
    Responded =>
        /\ (NonNumeric(result.request.threshold) \/ OutOfRange(result.request.threshold))
               => (result.status_code = 400 /\ result.stages = {})
        /\ ~IsNone(result.custom_threshold)
               => (0 <= result.custom_threshold.value /\ result.custom_threshold.value <= 100)

\* the embeddings and the documents the handler matches against
Candidates ==
    EmbedQuestionsFromDocuments(get_questions_for_embedding(documents, TRUE).documents, TRUE)

\* the result item of question i of the batch answered
ItemOf(i) == result.results[i]

\* C14: in /query/batch a failure while processing question i gives an error
\* item for question i only: the response holds one result per question, in
\* the order of the questions and with question_index equal to the position,
\* the item of a failing question is the error item, and the item of every
\* other question, before or after it, is what the matcher gives for it.
C14_BatchIsolation ==
    (result.op = "batch" /\ result.status_code = 200) =>
        LET questions == result.request.questions IN
        /\ Len(result.results) = Len(questions)
        /\ \A i \in 1..Len(questions) :
              /\ i \in DOMAIN result.results
              /\ ItemOf(i).question_index = i - 1
              /\ ItemOf(i).query = questions[i]
              /\ i \in result.failing =>
                    /\ ItemOf(i).error = "Failed to process this question"
                    /\ ItemOf(i).matches = <<>>
              /\ i \notin result.failing =>
                    /\ ItemOf(i).error = ""
                    /\ ItemOf(i) \in ItemsWithoutError(i, questions[i], Encode(Strip(questions[i].chars)),
                                                       Candidates.embeddings, Candidates.valid_documents,
                                                       result.top_k.value, result.custom_threshold)

\* a batch of two questions whose first one failed and whose second one matched
C14_Witness ==
    /\ result.op = "batch"
    /\ result.status_code = 200
    /\ Len(result.request.questions) = 2
    /\ result.failing = {1}
    /\ Len(result.results) = 2
    /\ result.results[1].error # ""
    /\ result.results[2].error = ""
    /\ result.results[2].matches # <<>>

\* the largest similarity of the question asked and the candidates
BestObserved ==
    LET sims == calculate_cosine_similarity(Encode(Strip(result.request.question.chars)),
                                            Candidates.embeddings).similarities
    IN sims[ArgMaxFrom(sims, 1, 1)]

\* C15: every 404 response of /query carries the best observed similarity and
\* the threshold the matcher applied: threshold_used equals the threshold
\* find_best_match compared the score against, for every accepted threshold
\* in [0, 1], the bounds included, and for an omitted threshold.
C15_ThresholdUsedIsApplied ==
    (result.op = "query" /\ result.status_code = 404) =>
        /\ result.best_similarity = Some(BestObserved)
        /\ result.threshold_used = Some(ThresholdOrConfig(result.applied))

-----------------------------------------------------------------------------
(* Properties of the external ranker protocol, checked under RankSpec *)

\* C19: a response of the external scorer is accepted as a match only if a
\* matched-question string is present and is not the not-found sentinel, its
\* score is at least the fixed confidence threshold, and the string is a
\* verbatim member of the candidate list that was sent; a response that names
\* a question absent from the list sent is a no-match whatever its score.
C19_RankerAcceptance ==
    result.op = "rank" =>
        /\ result.accepted =>
              /\ result.response.kind = "payload"
              /\ result.response.text \notin {"", NotFoundSentinel}
              /\ result.response.score >= CONFIDENCE_THRESHOLD
              /\ result.response.text \in { result.sent[i] : i \in 1..Len(result.sent) }
        /\ (result.response.text \notin { result.sent[i] : i \in 1..Len(result.sent) })
              => (~result.accepted /\ result.matched = None /\ result.entry = None)

\* the scorer named, with a score above the threshold, a question that was
\* not in the list sent, the list not being empty, and rank gave no match
C19_Witness ==
    /\ result.op = "rank"
    /\ result.sent # <<>>
    /\ result.response.kind = "payload"
    /\ result.response.text = HallucinatedQuestion
    /\ result.response.score > CONFIDENCE_THRESHOLD
    /\ ~result.accepted
    /\ result.matched = None

-----------------------------------------------------------------------------
(* Properties of the cache reports and of clear_cache, checked under InfoSpec *)

\* the state clear_cache leaves: no record and no time stamp
Cleared == cache = EmptyDict /\ last_cache_time = 0

\* C21: clear_cache resets the cache: it leaves no record and no time stamp;
\* from then on, until the next fetch, get_cache_info reports cached=false,
\* 0 entries, age 0, 0 seconds remaining and status 'none'; and the next
\* fetch_knowledge_base is not answered from the cache: it acquires the data
\* afresh (the static dataset when use_mock is set, else one live attempt,
\* then the fallback if the attempt fails) and stores it with the time of
\* the call, whatever the age of the cleared record was.
C21_ClearResets ==
    [][ /\ (call'.op = "clear") => Cleared'
        /\ (Cleared /\ call'.op = "info") =>
               call'.info = [cached |-> FALSE, cache_age_seconds |-> 0, cache_expires_in |-> 0,
                             cached_entries |-> 0, cache_status |-> "none"]
        /\ (Cleared /\ call'.op = "fetch") =>
               /\ ~call'.hit
               /\ call'.raised = "none"
               /\ last_cache_time' = now'
               /\ cache'.data = call'.ret
               /\ IF call'.use_mock
                  THEN call'.live_calls = 0 /\ call'.ret = mock_data /\ cache'.status = "mock"
                  ELSE /\ call'.live_calls = 1
                       /\ IF call'.cls = "live_list"
                          THEN /\ call'.fallbacks = 0
                               /\ call'.ret = call'.live_data
                               /\ cache'.status = "success"
                          ELSE /\ call'.fallbacks = 1
                               /\ call'.ret = mock_data
                               /\ cache'.status = "fallback"
      ]_vars

\* a record that was still valid was cleared, and the fetch that followed at
\* once contacted the live source and returned its list
C21_Witness ==
    /\ call.op = "fetch"
    /\ call.after_clear = "valid"
    /\ ~call.hit
    /\ call.live_calls = 1
    /\ call.cls = "live_list"
    /\ call.ret = <<LiveEntryA>>

\* C22: get_cache_info agrees with cache validity: it reports cached=true
\* exactly when a fetch_knowledge_base issued at the same instant would be
\* answered from the cache (a record exists and its age is below
\* cache_expiry); the remaining time it reports lies in [0, cache_expiry]
\* and is positive only for a valid record.
C22_InfoAgreesWithValidity ==
    call.op = "info" =>
        /\ call.info.cached <=> _is_cache_valid
        /\ call.info.cache_expires_in \in 0..cache_expiry
        /\ (call.info.cache_expires_in > 0) => _is_cache_valid

-----------------------------------------------------------------------------
(* Properties of the preparation of the candidate set, checked under PrepSpec *)

\* a raw record that is usable: a question that is a text and is not blank,
\* and answers that are a mapping
UsableRecord(doc) ==
    /\ HasUsableQuestion(doc)
    /\ "answers" \in DOMAIN doc
    /\ doc.answers.type = "dict"

\* C25: entry validation never raises: whatever the presence, type or
\* emptiness of the question and answers fields of the raw records, preparing
\* the candidate set (get_questions_for_embedding followed by
\* embed_questions_from_documents, the model being loaded) keeps exactly the
\* usable records, in their order, and does not raise as long as at least
\* one usable record is among them.
C25_ValidationNeverRaises ==
    (result.op = "prepare" /\ result.model_loaded
        /\ \E i \in 1..Len(documents) : UsableRecord(documents[i]))
    => /\ result.raised = "none"
       /\ result.valid_documents = SelectSeq(documents, UsableRecord)

-----------------------------------------------------------------------------
(* The empty live result, checked under SearchSpec *)

\* the record an empty list of the live source leaves in the cache
EmptyLiveRecord == [data |-> <<>>, status |-> "success", count |-> 0]

\* C30: an empty live result is cached as a valid record: when the live
\* source answers 200 with an empty list, the fetch of a search stores it
\* with the status of a live result and the time of the call and returns the
\* empty sequence, the static dataset not being used; while that record is
\* held and its age is below cache_expiry, the fetch of every search returns
\* the empty sequence from the cache without contacting the source; and in
\* both cases search_knowledge_base answers None, whatever the question.
C30_EmptyLiveResultCached ==
    [][ (call'.op = "search" /\ ~BlankQuestion(call'.question)) =>
          /\ (call'.cls = "live_list" /\ call'.live_data = <<>>) =>
                 /\ cache' = EmptyLiveRecord
                 /\ last_cache_time' = now'
                 /\ call'.ret = <<>>
                 /\ call'.fallbacks = 0
                 /\ call'.found = None
          /\ (cache = EmptyLiveRecord /\ now - last_cache_time < cache_expiry) =>
                 /\ call'.hit
                 /\ call'.ret = <<>>
                 /\ call'.live_calls = 0
                 /\ call'.fallbacks = 0
                 /\ call'.found = None
                 /\ UNCHANGED <<cache, last_cache_time>>
      ]_vars

\* a question the static dataset answers is asked 150 s after the empty list
\* was stored: the search is answered from the cache, with None
C30_Witness ==
    /\ call.op = "search"
    /\ call.question = "about kotlin"
    /\ call.hit
    /\ call.ret = <<>>
    /\ call.found = None
    /\ cache = EmptyLiveRecord
    /\ now - last_cache_time = cache_expiry \div 2

-----------------------------------------------------------------------------
(* The sequences fetch_knowledge_base returns to concurrent request threads,
   checked under ThreadSpec *)

\* thread t has returned from a call of fetch_knowledge_base
FetchReturned(t) ==
    pc[t] = "idle" /\ local[t].op = "fetch" /\ local[t].raised = "none"

\* C28: every sequence fetch_knowledge_base returns is the complete entry
\* list of one record: of a record written whole so far, of a record a
\* thread is writing, or the static dataset; so a fetch returns the empty
\* sequence only when a record with an empty list was written.
C28_WholeListReturned ==
    \A t \in Threads :
        FetchReturned(t) =>
            local[t].ret \in
                { r.cache.data : r \in { x \in gen.records : DictTruthy(x.cache) } }
                \cup { local[u].data : u \in { v \in Threads : pc[v] = "store_time" } }
                \cup { mock_data }

-----------------------------------------------------------------------------
(* get_top_matches against find_best_match, checked under SimSpec *)

\* C29: top-k and best-match agree: for every candidate set, threshold and
\* k >= 1 such that find_best_match returns a document for the same query
\* (at least one candidate reaches the threshold), the list get_top_matches
\* returns is not empty and its first element has the document and the index
\* find_best_match returns, also when several candidates share the largest
\* similarity.
C29_TopAgreesWithBest ==
    LET b == FindBestMatch(result.query, document_embeddings, documents, result.threshold) IN
    (result.op = "top" /\ result.raised = "none" /\ result.top_k >= 1
        /\ b.raised = "none" /\ b.document # None)
    => /\ result.matches # <<>>
       /\ result.matches[1].index = b.index
       /\ result.matches[1].document = b.document

-----------------------------------------------------------------------------
(* Recovery of the live source, checked under RecoverSpec *)

\* a fetch has just returned the list of the live source and left it in the
\* cache with the status of a live result
LiveServed ==
    /\ call.op = "fetch"
    /\ call.cls = "live_list"
    /\ call.ret = call.live_data
    /\ cache = [data |-> call.live_data, status |-> "success", count |-> Len(call.live_data)]

=============================================================================
